---------------------------- MODULE Spec2Model ----------------------------
(***************************************************************************)
(* A model of the cpp-effects runtime (include/cpp-effects/cpp-effects.h   *)
(* and clause-modifiers.h): the metastack of metaframes, the fibers the    *)
(* frames hold, the per-handler resumption buffers, the tail-resume slot,  *)
(* and the code of handle_with / invoke_command / resume / tail_resume.    *)
(*                                                                         *)
(* A fiber (boost::context::fiber) is modelled as an execution context     *)
(* with its own call stack: a sequence of activation records, the last one *)
(* being the innermost call.  The library functions are cut at the points  *)
(* where they hand control to client code (a body, a command clause, a     *)
(* return clause) or switch fibers; each piece is one action.  Client code *)
(* is a small instruction list taken from the tests and examples.          *)
(***************************************************************************)
EXTENDS Integers, Sequences, FiniteSets, TLC

VARIABLES
  metastack,        \* std::list<metaframe_ptr> metastack; Head = front()
  frames,           \* every metaframe object ever made: id -> fields
  contexts,         \* every execution context: id -> call stack (<<>> = gone)
  cur,              \* the context that is running
  answers,          \* the std::optional<Answer> locals of handle_with/resume
  tail_resumption,  \* std::optional<resumption_base*>: <<>> or <<frame, cmd>>
  freshCounter,     \* static int64_t freshCounter of fresh_label
  Res,              \* the client's global resumption pointer (test2)
  result,           \* Generator<T>::result: <<>> or <<value, resumption>>
  objects,          \* every Cmd object of command-lifetime ever constructed
  memory,           \* int x and char c of main of examples/rollback-state.cpp
  trace,            \* what the client code printed, in order
  status,           \* "run", "exit" (exit(-1) after a diagnostic), "ub"
  input             \* the scenario and its inputs, fixed by Init

vars == <<metastack, frames, contexts, cur, answers, tail_resumption,
          freshCounter, Res, result, objects, memory, trace, status, input>>

----------------------------------------------------------------------------
(* Bounds of the inputs.                                                   *)

MaxVec == 3
MaxOps == 3
MaxDepth == 3

(* Program constants of the tests.                                         *)

InitialState == 100
CatchValue == 42
BreakValue == 100
ReturnValue == 10
BodyResult == 100

----------------------------------------------------------------------------
(* Small helpers.                                                          *)

Last(q) == q[Len(q)]

Front(q) == SubSeq(q, 1, Len(q) - 1)

RECURSIVE SeqsUpTo(_, _)
SeqsUpTo(S, n) ==
  IF n = 0 THEN {<<>>}
  ELSE LET shorter == SeqsUpTo(S, n - 1)
       IN  shorter \cup {Append(q, x) : q \in {t \in shorter : Len(t) = n - 1}, x \in S}

Null == <<>>

----------------------------------------------------------------------------
(* Commands (structs derived from command<...>) and the handler classes of *)
(* the tests and examples.                                                 *)

Cmds == {"Print", "Error", "Break", "Read", "Get", "Put", "Cmd", "CmdY",
         "Inc", "Cmd1", "Cmd2", "CmdYield", "Yield", "CmdVoid",
         "PingOuter", "PingInner", "CutMiddlemanAid", "CutMiddlemanAbet",
         "CmdAid", "CmdAbet", "LifetimeCmd", "Abort", "Arg", "Arg0",
         "Consume", "Do", "Rollback", "AssignCmd"}

\* command<> has out_type void; command<Out> has out_type Out
OutVoid(cmd) == cmd \in {"Print", "Error", "Break", "Put", "Inc", "CmdYield", "Yield",
                         "CmdVoid", "PingOuter", "PingInner",
                         "CutMiddlemanAid", "CutMiddlemanAbet", "CmdAbet",
                         "LifetimeCmd", "Abort", "Arg0", "Consume", "Do",
                         "Rollback", "AssignCmd"}

P(tag, n) == <<tag, n>>

\* A handler class: the commands it declares (its command_clause bases), the
\* kind of each clause, the code of the clauses and of the return clause, and
\* whether answer_type / body_type is void.
Class(cmds, kind, ret, avoid, bvoid) ==
  [cmds |-> cmds, kind |-> kind, ret |-> ret, avoid |-> avoid, bvoid |-> bvoid]

Cls(name) ==
  CASE name = "metaframe" ->
         Class({}, "std", P("none", 0), TRUE, TRUE)
    [] name = "Printer" ->
         Class({"Print"}, "std", P("Printer_return", 0), FALSE, FALSE)
    [] name = "Catch" ->
         Class({"Error"}, "no_resume", P("Catch_return", 0), FALSE, FALSE)
    [] name = "Cancel" ->
         Class({"Error"}, "no_resume", P("void_return", 0), TRUE, TRUE)
    [] name = "HH" ->
         Class({"Break"}, "std", P("HH_return", 0), FALSE, TRUE)
    \* test/swap-handler.cpp: Aid<H>, Abet<H> and Reader<int, int>
    [] name = "Aid" ->
         Class({"CmdAid"}, "std", P("flat_return", 0), FALSE, FALSE)
    [] name = "Abet" ->
         Class({"CmdAbet"}, "std", P("flat_return", 0), FALSE, FALSE)
    [] name = "ReaderInt" ->
         Class({"Read"}, "std", P("flat_return", 0), FALSE, FALSE)
    \* benchmark/generator.cpp, StaticGenerator::GeneratorHandler<T>
    [] name = "StaticGeneratorHandler" ->
         Class({"Yield"}, "std", P("StaticGenerator_return", 0), FALSE, TRUE)
    \* test/command-lifetime.cpp: MyHandler, which handles Cmd
    [] name = "LifetimeHandler" ->
         Class({"LifetimeCmd"}, "std", P("void_return", 0), TRUE, TRUE)
    \* the local classes of resumption::resumption(std::function<...>):
    \* HAbort, HArg for resumption<Answer(Out)> and for resumption<Answer()>
    [] name = "HAbort" ->
         Class({"Abort"}, "std", P("void_return", 0), TRUE, TRUE)
    [] name = "HArg" ->
         Class({"Arg"}, "std", P("flat_return", 0), FALSE, FALSE)
    [] name = "HArg0" ->
         Class({"Arg0"}, "std", P("flat_return", 0), FALSE, FALSE)
    \* examples/fuel.cpp: BoundedExecution<int64_t>, its field fuel
    [] name = "BoundedExecution" ->
         Class({"Consume"}, "std", P("BoundedExecution_return", 0), FALSE, FALSE)
    [] name = "WithDefault" ->
         Class({"Error"}, "std", P("flat_return", 0), FALSE, FALSE)
    [] name = "Reader" ->
         Class({"Read"}, "std", P("void_return", 0), TRUE, TRUE)
    \* examples/rollback-state.cpp
    [] name = "RollbackState" ->
         Class({"Rollback", "AssignCmd"}, "std", P("RollbackState_return", 0),
               FALSE, TRUE)
    \* test/plain-handler.cpp: Bracket and its Printer (a plain clause)
    [] name = "Bracket" ->
         Class({"Do"}, "std", P("void_return", 0), TRUE, TRUE)
    [] name = "SandwichPrinter" ->
         Class({"Print"}, "plain", P("void_return", 0), TRUE, TRUE)
    \* a Reader<int, int> whose handle_return invokes Read
    [] name = "Asker" ->
         Class({"Read"}, "std", P("Asker_return", 0), FALSE, FALSE)
    [] name = "HStateful" ->
         Class({"Put", "Get"}, "plain", P("flat_return", 0), FALSE, FALSE)
    [] name = "HStatefulTail" ->
         Class({"Put", "Get"}, "std", P("flat_return", 0), FALSE, FALSE)
    [] name = "HStatefulResume" ->
         Class({"Put", "Get"}, "std", P("flat_return", 0), FALSE, FALSE)
    [] name = "TestAnswerType" ->
         Class({"Cmd"}, "std", P("flat_return", 0), FALSE, FALSE)
    [] name = "YTestOutType" ->
         Class({"CmdY"}, "std", P("flat_return", 0), FALSE, FALSE)
    [] name = "HIP" ->
         Class({"Inc", "Break"}, "std", P("flat_return", 0), FALSE, FALSE)
    [] name = "H" ->
         Class({"Cmd1", "Cmd2"}, "std", P("void_return", 0), TRUE, TRUE)
    [] name = "HInner" ->
         Class({"PingInner", "CutMiddlemanAid"}, "std", P("void_return", 0), TRUE, TRUE)
    [] name = "HOuter" ->
         Class({"PingOuter", "CutMiddlemanAbet"}, "std", P("void_return", 0), TRUE, TRUE)
    [] name = "MyHandler" ->
         Class({"CmdVoid"}, "std", P("void_return", 0), TRUE, TRUE)
    [] name = "MyHandlerNoManage" ->
         Class({"CmdVoid"}, "no_manage", P("void_return", 0), TRUE, TRUE)
    [] name = "EscapeHandler" ->
         Class({"CmdVoid"}, "std", P("EscapeHandler_return", 0), TRUE, TRUE)
    \* MyHandler with a second clause that lets the resumption escape as the
    \* clause of EscapeHandler does
    [] name = "MyEscapeHandler" ->
         Class({"CmdVoid", "Break"}, "std", P("void_return", 0), TRUE, TRUE)
    [] name = "MyEscapeHandlerNoManage" ->
         Class({"CmdVoid", "Break"}, "no_manage", P("void_return", 0), TRUE, TRUE)
    \* a handler with a clause that lets the resumption escape and a
    \* no_resume clause: handler<void, void, Break, no_resume<Error>>
    [] name = "EscapeCatch" ->
         Class({"Break", "Error"}, "std", P("void_return", 0), TRUE, TRUE)
    [] name = "GeneratorHandler" ->
         Class({"CmdYield"}, "std", P("void_return", 0), TRUE, TRUE)
    [] name = "GeneratorHandlerNoManage" ->
         Class({"CmdYield"}, "no_manage", P("void_return", 0), TRUE, TRUE)

\* the modifier of the clause of class cls for command cmd: a class gives
\* one to each of its commands (handler<Answer, Body, Cmds...>)
KindOf(cls, cmd) ==
  IF cls = "EscapeCatch" /\ cmd = "Error" THEN "no_resume" ELSE Cls(cls).kind

\* dynamic_pointer_cast<can_invoke_command<Cmd>>(frame) succeeds
Declares(cls, cmd) == cmd \in Cls(cls).cmds

----------------------------------------------------------------------------
(* Client code.  An instruction is a record [op, a, b, c, d]; an           *)
(* expression is a pair <<tag, n>> evaluated in the activation that runs   *)
(* it (acc: the local variable, st: the handler's field, pl: the command's *)
(* field).                                                                 *)

I(op, a, b, c, d) == [op |-> op, a |-> a, b |-> b, c |-> c, d |-> d]

Inv(cmd)            == I("inv", cmd, Null, <<"c", 0>>, 0)
InvWith(cmd, e)     == I("inv", cmd, Null, e, 0)
InvAt(l, cmd)       == I("inv", cmd, <<l>>, <<"c", 0>>, 0)
Hdl(cls, body, e)   == I("handle", cls, Null, body, e)
HdlAt(l, cls, body, e) == I("handle", cls, <<l>>, body, e)
Ret(e)              == I("ret", e, 0, 0, 0)
ResumeI(e)          == I("resume", e, 0, 0, 0)
TailI(e)            == I("tail", e, 0, 0, 0)
OutS(e)             == I("outs", e, 0, 0, 0)
OutN(e)             == I("outn", e, 0, 0, 0)
SetI(e)             == I("set", e, 0, 0, 0)
PutI(e)             == I("put", e, 0, 0, 0)
EscapeI             == I("escape", 0, 0, 0, 0)
ReleaseI            == I("escape", 1, 0, 0, 0)
TailOfI(e)          == I("tailOf", e, 0, 0, 0)
ResumeResI          == I("resumeRes", 0, 0, 0, 0)
ResumeResWithI(e)   == I("resumeRes", e, 0, 0, 1)
ExitI               == I("exit", 0, 0, 0, 0)
InvRef(cmd, e)      == I("inv", cmd, Null, e, 1)
FindI(e)            == I("find", e, 0, 0, 0)
FindTypeI(cmd)      == I("find", <<"c", 0>>, cmd, 0, 1)
StoreI              == I("store", 0, 0, 0, 0)
NextI               == I("next", 0, 0, 0, 0)
DropI               == I("drop", 0, 0, 0, 0)
LoopI               == I("loop", 0, 0, 0, 0)
InvLabel(cmd, e)    == I("inv", cmd, Null, e, 2)
InvStatic(H, cmd)   == I("inv", cmd, <<H>>, <<"c", 0>>, 3)
InvStaticAt(H, l, cmd) == I("inv", cmd, <<H, l>>, <<"c", 0>>, 4)
NewCmdI             == I("newCmd", 0, 0, 0, 0)
EndBlockI           == I("endBlock", 0, 0, 0, 0)
OutId(str)          == I("outid", str, 0, 0, 0)
ValueI              == I("value", 0, 0, 0, 0)
RenewI              == I("renew", 0, 0, 0, 0)
MakeI(cls, e)       == I("make", e, 0, 0, cls)
ClearI              == I("clear", 0, 0, 0, 0)
HdlWith(body, e)    == I("handleWith", e, Null, body, 0)
ResumeOfI(e)        == I("resumeOf", e, 0, 0, 0)
\* an if whose condition is taken for true
IfTaken(e)          == I("if", <<"c", TRUE>>, 0, 0, 0)
IfI(e)              == I("if", e, 0, 0, 0)
\* new Assign<T>(var, val) as the field asg of an AssignCmd: the n-th object
TrackI(var, val, n) == I("assign", 0, var, val, n)
\* a.asg->undo()
UndoI               == I("undo", 0, 0, 0, 0)
\* std::cout << "x = " << x << ", " << "c = " << c << std::endl
OutMemI             == I("outmem", 0, 0, 0, 0)
EndI                == I("end", 0, 0, 0, 0)

Acc == <<"acc", 0>>
St  == <<"st", 0>>
Pl  == <<"pl", 0>>
K(n) == <<"c", n>>
Val == <<"val", 0>>
SumVal == <<"val", 1>>
Fresh == <<"fresh", 0>>
Gen == <<"gen", 0>>
Nullopt == <<"nullopt", 0>>
Han == <<"han", 0>>
ResE == <<"res", 0>>
AidE == <<"aid", 0>>

\* examples/exceptions.cpp: the loop of product over the vector v
ProductStep(i) ==
  IF i = 0 THEN <<Inv("Error"), ExitI, SetI(<<"mul", i>>)>>
  ELSE <<SetI(<<"mul", i>>)>>

\* test/plain-handler.cpp: put(s) and get() issued by a body;
\* 0 stands for a get whose result is printed, k > 0 for put(k)
StateStep(k) ==
  IF k = 0 THEN <<Inv("Get"), OutN(Acc)>> ELSE <<InvWith("Put", K(k))>>

\* test/variadic-commands.cpp: foo invokes Cmd1 (1) or Cmd2 (2) and prints
VariadicStep(k) ==
  IF k = 1 THEN <<Inv("Cmd1"), OutN(Acc)>> ELSE <<Inv("Cmd2"), OutN(Acc)>>

\* test/handlers-with-labels.cpp: rec(0) reads by label and prints
ReadStep(l) == <<InvAt(l, "Read"), OutN(Acc)>>

\* benchmark/generator.cpp: SUM = SUM + snaturals.Value(); snaturals.Next()
GeneratorStep(k) == <<SetI(SumVal), NextI>>

\* benchmark/generator.cpp: yield(i++), i.e.
\* static_invoke_command<GeneratorHandler<T>>(it, CmdYield<T>{{}, x})
YieldStep(k) == <<InvRef("CmdYield", K(k))>>

\* benchmark/generator.cpp, the loop over StaticGenerator's snaturals:
\* SUM = SUM + snaturals.Value(); snaturals.Next()
StaticGeneratorStep(k) == <<ValueI, RenewI>>

\* yield(i++) of StaticGenerator: static_invoke_command by the label
StaticYieldStep(k) == <<InvLabel("Yield", K(k))>>

\* the statements one turn of a loop of the body runs for the element k
StepOf(loop, k) ==
  CASE loop = "product" -> ProductStep(k)
    [] loop = "state" -> StateStep(k)
    [] loop = "variadic" -> VariadicStep(k)
    [] loop = "read" -> ReadStep(k)
    [] loop = "generator" -> GeneratorStep(k)
    [] loop = "yield" -> YieldStep(k)
    [] loop = "staticGenerator" -> StaticGeneratorStep(k)
    [] loop = "staticYield" -> StaticYieldStep(k)

\* a loop over the elements of q, unrolled
RECURSIVE FlatMap(_, _)
FlatMap(loop, q) ==
  IF q = <<>> THEN <<>> ELSE StepOf(loop, Head(q)) \o FlatMap(loop, Tail(q))

\* examples/fuel.cpp, fib(n): the value, and the commands it invokes on the
\* way (one Consume of amount 1 at the head of every call)
\* (track<int>) x = 2; (track<char>) c = 'b'; (track<int>) x = 3; ...: the
\* i-th tracked assignment of main, for i from a to b
TrackedVal(i) == IF i % 2 = 1 THEN (i + 1) \div 2 + 1 ELSE <<"b", "c", "d", "e">>[i \div 2]

Tracked(a, b) ==
  [j \in 1..(2 * (b - a + 1)) |->
     LET i == a + (j - 1) \div 2
     IN  IF j % 2 = 1 THEN TrackI(IF i % 2 = 1 THEN "x" ELSE "c", TrackedVal(i), i)
         ELSE InvWith("AssignCmd", Pl)]

RECURSIVE fib(_)
fib(n) == IF n = 0 THEN 0 ELSE IF n = 1 THEN 1 ELSE fib(n - 1) + fib(n - 2)

RECURSIVE FibCode(_)
FibCode(n) ==
  <<InvWith("Consume", K(1))>>
    \o (IF n < 2 THEN <<>> ELSE FibCode(n - 1) \o FibCode(n - 2))

\* the handler class H and its command in the programs with
\* static_invoke_command: Reader with Read (a clause that resumes with a
\* value, as Han of benchmark/function.cpp), or Cancel with Error (a
\* no_resume clause, as CatchNR of benchmark/exceptions.cpp)
StaticH(in) == IF in.vec[3] = 1 THEN "Reader" ELSE "Cancel"

StaticCmd(in) == IF in.vec[3] = 1 THEN "Read" ELSE "Error"

\* a handler class that does not declare H's command
StaticOther(in) == IF in.vec[3] = 1 THEN "Cancel" ELSE "Reader"

\* if (...) { eff::static_invoke_command<Catch>(Error{}); } sum++;
StaticBody(in) ==
  <<CASE in.val = 0 -> Inv(StaticCmd(in))
      [] in.val = 1 -> InvStatic(StaticH(in), StaticCmd(in))
      [] in.val = 2 -> InvAt(in.vec[2], StaticCmd(in))
      [] in.val = 3 -> InvStaticAt(StaticH(in), in.vec[2], StaticCmd(in)),
    OutS(<<"str", "sum++">>), Ret(Null)>>

MainOf(in) ==
  CASE in.scen = "noresume" ->
         <<Hdl("Printer", P("nr_outer", 0), <<"str", "[out]">>), OutN(Acc), EndI>>
    [] in.scen = "cancel" ->
         <<OutS(<<"str", "Welcome!">>), Hdl("Cancel", P("cancel_body", 0), K(0)),
           OutS(<<"str", "Bye!">>), EndI>>
    [] in.scen = "global" ->
         <<Hdl("HH", P("global_body", 0), K(0)), OutN(Acc), EndI>>
    [] in.scen = "product" ->
         <<Hdl("WithDefault", P("product_body", 0), K(in.val)), OutN(Acc), EndI>>
    [] in.scen = "labels" ->
         <<HdlAt(MaxDepth, "Reader", P("rec", MaxDepth - 1), K(MaxDepth)), EndI>>
    [] in.scen = "commandLifetime" ->
         <<Hdl("LifetimeHandler", P("myComputation", 0), K(0)), EndI>>
    [] in.scen = "state_plain" ->
         <<Hdl("HStateful", P("state_body", 0), K(InitialState)), OutN(Acc), EndI>>
    [] in.scen = "state_tail" ->
         <<Hdl("HStatefulTail", P("state_body", 0), K(InitialState)), OutN(Acc), EndI>>
    [] in.scen = "state_resume" ->
         <<Hdl("HStatefulResume", P("state_body", 0), K(InitialState)), OutN(Acc), EndI>>
    [] in.scen = "traits" ->
         <<Hdl("TestAnswerType", P("traits_body", 0), K(0)), OutN(Acc), EndI>>
    [] in.scen = "traitsY" ->
         <<Hdl("YTestOutType", P("traitsY_body", 0), K(0)), OutN(Acc), EndI>>
    [] in.scen = "middleman2" ->
         <<Hdl("HIP", P("comp", 0), K(0)), OutN(Acc),
           ResumeResI, OutN(Acc), ResumeResI, OutN(Acc), EndI>>
    [] in.scen = "variadic" ->
         <<Hdl("H", P("foo", 0), K(InitialState)), EndI>>
    \* test/cut-out-the-middleman.cpp, test1
    [] in.scen = "middleman1" ->
         <<OutS(<<"str", "A+">>), Hdl("HOuter", P("test1_B", 0), K(0)),
           OutS(<<"str", "A-">>), EndI>>
    \* test/handler-lifetime.cpp
    [] in.scen = "afterReturn" ->
         <<Hdl("MyHandler", P("afterReturn", 0), <<"str", "I'm alive!">>), EndI>>
    [] in.scen = "afterReturn_nm" ->
         <<Hdl("MyHandlerNoManage", P("afterReturn", 0), <<"str", "I'm alive!">>),
           EndI>>
    [] in.scen = "resumptionEscape" ->
         <<Hdl("EscapeHandler", P("hamlet", 0), K(0)),
           OutS(<<"str", "[A short break]">>), ResumeResI, EndI>>
    \* the body goes on after handle returned and then invokes a command whose
    \* clause resumes
    [] in.scen = "escapeThenResume" ->
         <<Hdl("MyEscapeHandler", P("pauseThenCmd", 0), <<"str", "I'm alive!">>),
           ResumeResI, EndI>>
    [] in.scen = "escapeThenResume_nm" ->
         <<Hdl("MyEscapeHandlerNoManage", P("pauseThenCmd", 0),
               <<"str", "I'm alive!">>),
           ResumeResI, EndI>>
    \* benchmark/generator.cpp: a Generator is made (its body runs up to the
    \* first yield), Len(in.vec) turns of the loop, the Generator is destroyed
    [] in.scen = "generator" ->
         <<Hdl("GeneratorHandler", P("naturals", 0), K(0))>>
           \o FlatMap("generator", in.vec) \o <<DropI, EndI>>
    [] in.scen = "generator_nm" ->
         <<Hdl("GeneratorHandlerNoManage", P("naturals", 0), K(0))>>
           \o FlatMap("generator", in.vec) \o <<DropI, EndI>>
    \* benchmark/generator.cpp: a StaticGenerator::Generator is made, the
    \* local holds its result; Len(in.vec) turns of the loop; the Generator
    \* has no destructor
    [] in.scen = "staticGenerator" ->
         <<Hdl("StaticGeneratorHandler", P("staticNaturals", 0), K(0))>>
           \o FlatMap("staticGenerator", in.vec) \o <<EndI>>
    \* test/swap-handler.cpp: main, with SwappableHandleWith; the initial
    \* value of the Reader is in.val
    [] in.scen = "swap" ->
         <<MakeI("ReaderInt", K(in.val)), Hdl("Aid", P("Swappable_outer", 0), K(0)),
           ClearI, OutN(Acc), EndI>>
    \* a command invoked with no handler installed, by type or by a label
    [] in.scen = "unhandled" ->
         IF in.vec = <<>> THEN <<Inv("Print"), EndI>>
         ELSE <<InvAt(in.vec[1], "Read"), EndI>>
    \* benchmark/exceptions.cpp, benchmark/function.cpp: a command invoked
    \* with static_invoke_command<H> (in.val odd) or with invoke_command (in.val
    \* even), by type (in.val < 2) or by label in.vec[2], inside a handler H
    \* with label 1 and, for in.vec[1] = 1, a second H with label 2 or, for
    \* in.vec[1] = 2, a handler of another class with label 2
    [] in.scen = "static" ->
         <<HdlAt(1, StaticH(in), P("static_mid", 0), K(7)), EndI>>
    \* a resumption made of a function, inside the body of a handler, then
    \* resumed: in.vec[1] = 1: resumption<int(int)>(f), f(x) = x + 1, resumed
    \* with in.val; 0: resumption<int()>(f), f() = in.val + 1;
    \* 2: wrap<HH>(body), the body of global-from-handle
    [] in.scen = "function" ->
         <<HdlAt(1, "Reader", P("function_client", 0), K(7)), EndI>>
    \* a handler_ref of the Reader with label 1 and state 7, taken by label
    \* (in.val = 0) or by type (in.val = 1), is used after another handler
    \* was installed inside: in.vec[1] = 0 none, 1 a Reader with label 1, 2 a
    \* Reader with label 2, 3 a Cancel with label 1
    [] in.scen = "ref" ->
         <<HdlAt(1, "Reader", P("ref_outer", 0), K(7)), EndI>>
    \* examples/fuel.cpp, tryFib(n) with n = in.vec[1] and in.val units of
    \* fuel
    [] in.scen = "fuel" ->
         <<OutS(<<"str", "fib(n) = ">>),
           Hdl("BoundedExecution", P("fib_body", in.vec[1]), K(in.val)),
           IfI(<<"has", 1>>), OutN(<<"value", 0>>),
           IfI(<<"has", 0>>), OutS(<<"str", "...took too long to complete">>),
           EndI>>
    \* client code installs a handler with the label in.vec[1] and invokes
    \* a command of it with the label 0
    [] in.scen = "labelZero" ->
         <<HdlAt(in.vec[1], "Reader", P("labelzero_body", 0), K(7)), EndI>>
    \* examples/rollback-state.cpp, main
    [] in.scen = "rollback" ->
         <<Hdl("RollbackState", P("rollback_body", 0), K(0)), OutMemI, EndI>>
    \* test/plain-handler.cpp, testSandwich
    [] in.scen = "sandwich" ->
         <<MakeI("Bracket", <<"str", "[out]">>), HdlWith(P("sandwich_outer", 0), Pl),
           ClearI, OutS(<<"str", "">>), EndI>>
    \* client code whose return clause invokes a command of its own handler,
    \* without a label (vec[1] = 0) or with the handler's label (vec[1] = 1),
    \* inside another handler of the command with that label (vec[2] = 1)
    \* or inside none
    [] in.scen = "returnInvoke" ->
         IF in.vec[2] = 1
         THEN <<HdlAt(7, "Reader", P("asker_outer", 0), K(in.val)), EndI>>
         ELSE <<HdlAt(7, "Asker", P("asker_body", 0), K(in.val + 1)), OutN(Acc), EndI>>
    \* one handler object installed with handle_with, its clause lets the
    \* resumption escape; in.vec[1] = 2: the same object is installed again
    \* with another body before the first resumption is resumed; then each
    \* resumption is resumed once, the later one first
    [] in.scen = "reinstall" ->
         <<MakeI("EscapeHandler", K(0)), HdlWith(P("hamlet", 0), Pl),
           OutS(<<"str", "[A short break]">>)>>
           \o (IF in.vec[1] = 2 THEN <<HdlWith(P("soliloquy", 0), Pl)>> ELSE <<>>)
           \o <<ResumeResI>>
           \o (IF in.vec[1] = 2 THEN <<ResumeResI>> ELSE <<>>)
           \o <<ClearI, EndI>>
    \* the body invokes the command of a no_resume clause of its handler,
    \* at once (in.vec[1] = 0) or after a clause of the handler let the
    \* resumption escape, handle returned and the resumption was resumed
    [] in.scen = "escapeThenCancel" ->
         <<Hdl("EscapeCatch", P("breakThenError", 0), <<"str", "I'm alive!">>)>>
           \o (IF in.vec[1] = 1 THEN <<ResumeResI>> ELSE <<>>)
           \o <<OutS(<<"str", "[back in main]">>), EndI>>
    \* the same inside the body of a handler of Read installed with label 1
    [] in.scen = "unhandledIn" ->
         <<HdlAt(1, "Reader", P("unhandled_body", 0), K(0)), EndI>>

\* The code of program p under the inputs in.
Code(p, in) ==
  LET tag == p[1]
      n == p[2]
  IN
  CASE tag = "main" -> MainOf(in)
    \* test/handler-noresume.cpp, test()
    [] tag = "nr_outer" ->
         <<Hdl("Catch", P("nr_middle", 0), K(0)), Inv("Print"), Ret(Acc)>>
    [] tag = "nr_middle" ->
         <<Hdl("Printer", P("nr_inner", 0), <<"str", "[in]">>), Inv("Print"), Ret(K(2))>>
    [] tag = "nr_inner" ->
         <<Inv("Print"), Inv("Print"), Inv("Error"), Inv("Print"), Inv("Print"),
           Ret(K(BodyResult))>>
    [] tag = "Printer_Print" -> <<OutS(St), ResumeI(Null), Ret(Acc)>>
    [] tag = "Printer_return" -> <<Ret(<<"acc", 1>>)>>
    [] tag = "Catch_Error" -> <<OutS(<<"str", "[caught]">>), Ret(K(CatchValue))>>
    [] tag = "Catch_return" -> <<Ret(<<"acc", 100>>)>>
    \* test/handler-noresume.cpp, testError()
    [] tag = "cancel_body" ->
         <<OutS(<<"str", "So far so good...">>), Inv("Error"),
           OutS(<<"str", "I made it!">>), Ret(Null)>>
    [] tag = "Cancel_Error" -> <<OutS(<<"str", "Error!">>), Ret(Null)>>
    \* test/global-from-handle.cpp
    [] tag = "global_body" -> <<Inv("Break"), Ret(Null)>>
    [] tag = "HH_Break" -> <<Ret(K(BreakValue))>>
    [] tag = "HH_return" -> <<Ret(K(ReturnValue))>>
    \* examples/exceptions.cpp
    [] tag = "product_body" ->
         <<SetI(K(1))>> \o FlatMap("product", in.vec) \o <<Ret(Acc)>>
    [] tag = "WithDefault_Error" -> <<Ret(St)>>
    \* test/handlers-with-labels.cpp
    [] tag = "rec" ->
         IF n > 0
         THEN <<HdlAt(n, "Reader", P("rec", n - 1), K(n)), Ret(Null)>>
         ELSE FlatMap("read", in.vec) \o <<Ret(Null)>>
    [] tag = "Reader_Read" -> <<TailI(St), Ret(Null)>>
    \* test/plain-handler.cpp and examples/state.cpp
    [] tag = "state_body" -> FlatMap("state", in.vec) \o <<Ret(K(BodyResult))>>
    [] tag = "HStateful_Put" -> <<PutI(Pl), Ret(Null)>>
    [] tag = "HStateful_Get" -> <<Ret(St)>>
    [] tag = "HStatefulTail_Put" -> <<PutI(Pl), TailI(Null), Ret(Acc)>>
    [] tag = "HStatefulTail_Get" -> <<TailI(St), Ret(Acc)>>
    \* the same handler written with return std::move(r).resume(...)
    [] tag = "HStatefulResume_Put" -> <<PutI(Pl), ResumeI(Null), Ret(Acc)>>
    [] tag = "HStatefulResume_Get" -> <<ResumeI(St), Ret(Acc)>>
    \* test/traits.cpp
    [] tag = "traits_body" -> <<Inv("Cmd"), Ret(<<"acc", 10>>)>>
    [] tag = "TestAnswerType_Cmd" -> <<ResumeI(K(100)), Ret(<<"acc", 1>>)>>
    [] tag = "traitsY_body" -> <<InvWith("CmdY", K(in.val)), Ret(<<"acc", 10>>)>>
    [] tag = "YTestOutType_CmdY" -> <<ResumeI(Pl), Ret(<<"acc", 1>>)>>
    \* test/cut-out-the-middleman.cpp, test2
    [] tag = "comp" ->
         <<Inv("Inc"), Inv("Inc"), Inv("Break"), Inv("Inc"), Inv("Break"),
           Inv("Inc"), Ret(K(BodyResult))>>
    [] tag = "HIP_Break" -> <<EscapeI, Ret(K(0))>>
    [] tag = "HIP_Inc" -> <<ResumeI(Null), Ret(<<"acc", 1>>)>>
    \* test/variadic-commands.cpp
    [] tag = "foo" -> FlatMap("variadic", in.vec) \o <<Ret(Null)>>
    [] tag = "H_Cmd1" -> <<SetI(St), PutI(<<"st", 1>>), ResumeI(Acc), Ret(Null)>>
    [] tag = "H_Cmd2" -> <<SetI(St), PutI(<<"st", 1>>), TailI(Acc), Ret(Null)>>
    \* test/cut-out-the-middleman.cpp, test1
    [] tag = "test1_B" ->
         <<OutS(<<"str", "B+">>), Hdl("HInner", P("test1_C", 0), K(0)),
           OutS(<<"str", "B-">>), Ret(Null)>>
    [] tag = "test1_C" ->
         <<OutS(<<"str", "C+">>), Inv("PingOuter"), Inv("PingInner"),
           Inv("CutMiddlemanAid"), Inv("PingInner"), OutS(<<"str", "C-">>),
           Ret(Null)>>
    [] tag = "HInner_PingInner" -> <<OutS(<<"str", "Inner!">>), TailI(Null), Ret(Null)>>
    [] tag = "HInner_CutMiddlemanAid" ->
         <<ReleaseI, InvWith("CutMiddlemanAbet", Acc), Ret(Null)>>
    [] tag = "HOuter_PingOuter" -> <<OutS(<<"str", "Outer!">>), TailI(Null), Ret(Null)>>
    [] tag = "HOuter_CutMiddlemanAbet" -> <<TailOfI(Pl), Ret(Null)>>
    \* test/handler-lifetime.cpp
    [] tag = "afterReturn" ->
         <<OutS(<<"str", "Good morning!">>), Inv("CmdVoid"),
           OutS(<<"str", "How are you?">>), Inv("CmdVoid"),
           OutS(<<"str", "Cheers!">>), Ret(Null)>>
    [] tag = "MyHandler_CmdVoid" -> <<OutS(St), ResumeI(Null), OutS(St), Ret(Null)>>
    [] tag = "MyHandlerNoManage_CmdVoid" ->
         <<OutS(St), ResumeI(Null), OutS(St), Ret(Null)>>
    [] tag = "hamlet" ->
         <<OutS(<<"str", "To be">>), Inv("CmdVoid"),
           OutS(<<"str", "Or not to be">>), Ret(Null)>>
    [] tag = "soliloquy" ->
         <<OutS(<<"str", "To die">>), Inv("CmdVoid"),
           OutS(<<"str", "To sleep">>), Ret(Null)>>
    [] tag = "EscapeHandler_CmdVoid" ->
         <<EscapeI, OutS(<<"str", "Must give us pause!">>), Ret(Null)>>
    [] tag = "EscapeHandler_return" -> <<OutS(<<"str", "Thanks!">>), Ret(Null)>>
    \* in.val = 1: the clause asks the handler for its status after resume, as
    \* MyHandler does; in.val = 0: it writes a line of its own
    [] tag = "pauseThenCmd" -> <<Inv("Break"), Inv("CmdVoid"), Ret(Null)>>
    [] tag = "breakThenError" ->
         (IF in.vec[1] = 1 THEN <<Inv("Break")>> ELSE <<>>)
           \o <<Inv("Error"), OutS(<<"str", "I made it!">>), Ret(Null)>>
    [] tag = "EscapeCatch_Break" -> <<EscapeI, Ret(Null)>>
    [] tag = "EscapeCatch_Error" -> <<OutS(St), Ret(Null)>>
    [] tag = "MyEscapeHandler_Break" -> <<EscapeI, Ret(Null)>>
    [] tag = "MyEscapeHandlerNoManage_Break" -> <<EscapeI, Ret(Null)>>
    [] tag = "MyEscapeHandler_CmdVoid" ->
         <<OutS(St), ResumeI(Null),
           OutS(IF in.val = 1 THEN St ELSE <<"str", "Resumed!">>), Ret(Null)>>
    [] tag = "MyEscapeHandlerNoManage_CmdVoid" ->
         <<OutS(St), ResumeI(Null),
           OutS(IF in.val = 1 THEN St ELSE <<"str", "Resumed!">>), Ret(Null)>>
    \* benchmark/generator.cpp: the body of the Generator's handle, with the
    \* loop while (true) { yield(i++); } cut after the last yield that the
    \* Len(in.vec) calls of Next can reach
    [] tag = "naturals" ->
         <<FindI(Fresh)>>
           \o FlatMap("yield", [i \in 1..(Len(in.vec) + 1) |-> i - 1])
           \o <<LoopI>>
    [] tag = "GeneratorHandler_CmdYield" -> <<StoreI, Ret(Null)>>
    [] tag = "GeneratorHandlerNoManage_CmdYield" -> <<StoreI, Ret(Null)>>
    \* test/swap-handler.cpp: the lambdas of SwappableHandleWith
    [] tag = "Swappable_outer" -> <<HdlWith(P("Swappable_inner", 0), Pl), Ret(Acc)>>
    [] tag = "Swappable_inner" -> <<Hdl("Abet", P("swap_comp", 0), K(0)), Ret(Acc)>>
    \* comp, with get() = invoke Read and put(a) = invoke CmdAbet with a new
    \* Reader(a); the command object of put goes when put returns
    [] tag = "swap_comp" ->
         <<Inv("Read"), OutN(Acc),
           Inv("Read"), MakeI("ReaderInt", <<"acc", 10>>), InvWith("CmdAbet", Pl), ClearI,
           Inv("Read"), OutN(Acc),
           MakeI("ReaderInt", K(200)), InvWith("CmdAbet", Pl), ClearI,
           MakeI("ReaderInt", K(300)), InvWith("CmdAbet", Pl), ClearI,
           Inv("Read"), MakeI("ReaderInt", <<"acc", 10>>), InvWith("CmdAbet", Pl), ClearI,
           Inv("Read"), OutN(Acc),
           Inv("Read"), OutN(Acc),
           Inv("Read"), MakeI("ReaderInt", <<"acc", 10>>), InvWith("CmdAbet", Pl), ClearI,
           Inv("Read"), OutN(Acc),
           Ret(K(18))>>
    \* Abet::CommandClause: InvokeCmd(CmdAid<H>{{}, c.han, r.release()}); exit(-1)
    [] tag = "Abet_CmdAbet" -> <<ReleaseI, InvWith("CmdAid", AidE), ExitI>>
    \* Aid::CommandClause and its two lambdas
    [] tag = "Aid_CmdAid" -> <<Hdl("Aid", P("Aid_outer", 0), K(0)), Ret(Acc)>>
    [] tag = "Aid_outer" -> <<HdlWith(P("Aid_inner", 0), Han), Ret(Acc)>>
    [] tag = "Aid_inner" -> <<ResumeOfI(ResE), Ret(Acc)>>
    \* Reader::CommandClause: return OneShot::Resume(std::move(r), val)
    [] tag = "ReaderInt_Read" -> <<ResumeI(St), Ret(Acc)>>
    \* benchmark/generator.cpp, StaticGenerator: the lambda of the
    \* Generator's handle holds the label; the loop is cut as in naturals
    [] tag = "staticNaturals" ->
         <<SetI(Fresh)>>
           \o FlatMap("staticYield", [i \in 1..(Len(in.vec) + 1) |-> i - 1])
           \o <<LoopI>>
    \* return GenState<T>{y.value, r.release()}
    [] tag = "StaticGeneratorHandler_Yield" -> <<ReleaseI, Ret(Gen)>>
    \* return {}
    [] tag = "StaticGenerator_return" -> <<Ret(Nullopt)>>
    [] tag = "static_mid" ->
         IF in.vec[1] = 0 THEN StaticBody(in)
         ELSE <<HdlAt(2, IF in.vec[1] = 1 THEN StaticH(in) ELSE StaticOther(in),
                      P("static_body", 0), K(8)),
                Ret(Null)>>
    [] tag = "static_body" -> StaticBody(in)
    \* resumption<Answer(Out)> r(f); ...; std::move(r).resume(x)
    \* examples/fuel.cpp: std::bind(fib, n) and the clauses of
    \* BoundedExecution
    [] tag = "fib_body" -> FibCode(n) \o <<Ret(K(fib(n)))>>
    [] tag = "BoundedExecution_Consume" ->
         <<IfI(<<"short", 0>>), Ret(Nullopt),
           PutI(<<"less", 0>>), ResumeI(Null), Ret(Acc)>>
    [] tag = "BoundedExecution_return" -> <<Ret(<<"some", 0>>)>>
    \* examples/rollback-state.cpp: the body with in.vec[1] tracked
    \* assignments before the rollback (4 in the example; the outputs between
    \* them are left to the ends), the rollback when in.val = 1, one tracked
    \* assignment after it, and the clauses of RollbackState
    [] tag = "rollback_body" ->
         <<OutMemI>> \o Tracked(1, in.vec[1]) \o <<OutMemI>>
           \o (IF in.val = 1
               THEN <<OutS(<<"str", "rolling back!">>), Inv("Rollback")>>
               ELSE <<>>)
           \o Tracked(in.vec[1] + 1, in.vec[1] + 1) \o <<Ret(Null)>>
    [] tag = "RollbackState_return" -> <<Ret(K(TRUE))>>
    [] tag = "RollbackState_Rollback" -> <<Ret(K(FALSE))>>
    \* bool result = std::move(r).resume(); if (!result) { a.asg->undo(); }
    \* delete a.asg; return result;
    [] tag = "RollbackState_AssignCmd" ->
         <<ResumeI(Null), IfI(<<"not", 0>>), UndoI, Ret(Acc)>>
    \* the lambdas of testSandwich, sandwichComp and the clauses
    [] tag = "sandwich_outer" ->
         <<MakeI("SandwichPrinter", <<"str", "[print]">>),
           HdlWith(P("sandwich_middle", 0), Pl), Ret(Null)>>
    [] tag = "sandwich_middle" ->
         <<MakeI("Bracket", <<"str", "[in]">>), HdlWith(P("sandwichComp", 0), Pl),
           Ret(Null)>>
    [] tag = "sandwichComp" -> <<Inv("Do"), Inv("Print"), Ret(Null)>>
    [] tag = "Bracket_Do" ->
         <<SetI(St), OutS(<<"cat", "+">>), ResumeI(Null), OutS(<<"cat", "-">>),
           Ret(Null)>>
    [] tag = "SandwichPrinter_Print" ->
         <<SetI(St), OutS(<<"cat", "+">>), Inv("Do"), OutS(<<"cat", "-">>),
           Ret(Null)>>
    [] tag = "asker_outer" ->
         <<HdlAt(7, "Asker", P("asker_body", 0), K(in.val + 1)), OutN(Acc), Ret(Null)>>
    [] tag = "asker_body" -> <<Inv("Read"), Ret(Acc)>>
    [] tag = "Asker_Read" -> <<TailI(St), Ret(Null)>>
    [] tag = "Asker_return" ->
         <<IF in.vec[1] = 0 THEN Inv("Read") ELSE InvAt(7, "Read"),
           OutN(Acc), Ret(Acc)>>
    [] tag = "labelzero_body" ->
         <<InvAt(0, "Read"), OutN(Acc), Ret(Null)>>
    [] tag = "function_client" ->
         <<Hdl("HAbort", P("ctor_outer", 0), K(0)),
           OutS(<<"str", "constructed">>),
           IF in.vec[1] = 1 THEN ResumeResWithI(K(in.val)) ELSE ResumeResI,
           OutN(Acc), Ret(Null)>>
    \* the two lambdas of the constructor, with the function inline
    [] tag = "ctor_outer" ->
         <<Hdl(IF in.vec[1] = 1 THEN "HArg" ELSE "HArg0", P("ctor_inner", 0), K(0)),
           Ret(Null)>>
    [] tag = "ctor_inner" ->
         IF in.vec[1] = 1
         THEN <<Inv("Arg"), OutN(Acc), Ret(<<"acc", 1>>)>>
         ELSE IF in.vec[1] = 0
         THEN <<Inv("Arg0"), OutN(K(in.val)), Ret(K(in.val + 1))>>
         ELSE <<Inv("Arg0"), Hdl("HH", P("global_body", 0), K(0)), Ret(Acc)>>
    \* a.res = std::move(r); invoke_command(Abort{});
    [] tag = "HArg_Arg" -> <<EscapeI, Inv("Abort"), Ret(Null)>>
    [] tag = "HArg0_Arg0" -> <<EscapeI, Inv("Abort"), Ret(Null)>>
    \* void handle_command(Abort, resumption<void()>) override { }
    [] tag = "HAbort_Abort" -> <<Ret(Null)>>
    [] tag = "ref_outer" ->
         <<IF in.val = 0 THEN FindI(K(1)) ELSE FindTypeI("Read")>>
           \o (IF in.vec[1] = 0 THEN <<InvRef("Read", K(0)), OutN(Acc)>>
               ELSE <<HdlAt(IF in.vec[1] = 2 THEN 2 ELSE 1,
                            IF in.vec[1] = 3 THEN "Cancel" ELSE "Reader",
                            P("ref_inner", 0), K(8))>>)
           \o <<Ret(Null)>>
    [] tag = "ref_inner" -> <<InvRef("Read", K(0)), OutN(Acc), Ret(Null)>>
    [] tag = "unhandled_body" ->
         <<IF in.vec = <<>> THEN Inv("Print") ELSE InvAt(in.vec[1], "Print"),
           Ret(Null)>>
    \* test/command-lifetime.cpp
    [] tag = "myComputation" ->
         <<OutS(<<"str", "In computation: Creating a command...">>),
           NewCmdI, InvWith("LifetimeCmd", Pl), EndBlockI,
           OutS(<<"str", "In computation: The command is gone...">>), Ret(Null)>>
    [] tag = "LifetimeHandler_LifetimeCmd" ->
         <<OutId("In handler: received command id = "), ResumeI(Null),
           OutId("In handler: still using command id = "), Ret(Null)>>
    \* flat_handler::handle_return and an empty handle_return()
    [] tag = "flat_return" -> <<Ret(Acc)>>
    [] tag = "void_return" -> <<Ret(Null)>>

\* every command served by a clause that resumes at once
ClauseOfResuming(cls, cmd) == P("HIP_Inc", 0)

\* the clause of class cls for command cmd: handle_command(Cmd, ...)
ClauseOf(cls, cmd) == <<cls \o "_" \o cmd, 0>>

----------------------------------------------------------------------------
(* The state as one record, so that the library functions below are plain  *)
(* functions from state to state.                                          *)

Here ==
  [ms |-> metastack, fr |-> frames, ctx |-> contexts, cur |-> cur,
   ans |-> answers, tail |-> tail_resumption, fresh |-> freshCounter,
   Res |-> Res, result |-> result, objs |-> objects, mem |-> memory,
   trace |-> trace, status |-> status]

\* class metaframe: label(0), an empty fiber, return_buffer not set; a handler
\* adds its own fields (state) and one resumptionBuffer per command clause
\* (stored_metastack, command_result_buffer)
NewFrame(cls, st) ==
  [cls |-> cls, label |-> 0, fiber |-> 0, return_buffer |-> 0, state |-> st,
   stored |-> [c \in Cmds |-> <<>>], crb |-> [c \in Cmds |-> 0], alive |-> TRUE]

\* the activation of a piece of client code
CodeRec(p, acc, r, cmdv, self) ==
  [k |-> "code", p |-> p, pc |-> 1, acc |-> acc, r |-> r, cmdv |-> cmdv,
   self |-> self]

UB(s) == [s EXCEPT !.status = "ub"]

Exit(s) == [s EXCEPT !.status = "exit"]

Top(s) == Last(s.ctx[s.cur])

Push(s, c, rec) == [s EXCEPT !.ctx[c] = Append(@, rec)]

Pop(s, c) == [s EXCEPT !.ctx[c] = Front(@)]

\* the instruction the running client code is at
Instr(s) == Code(Top(s).p, input)[Top(s).pc]

AtOp(s, op) ==
  /\ s.status = "run"
  /\ Top(s).k = "code"
  /\ Instr(s).op = op

\* the record under the running client code: the library code that called it
Caller(s) == s.ctx[s.cur][Len(s.ctx[s.cur]) - 1]

Eval(e, rec, s) ==
  CASE e = Null -> 0
    [] e[1] = "c" -> e[2]
    [] e[1] = "str" -> e[2]
    [] e[1] = "acc" -> IF e[2] = 0 THEN rec.acc ELSE rec.acc + e[2]
    [] e[1] = "mul" -> rec.acc * e[2]
    \* !result
    [] e[1] = "not" -> ~rec.acc
    \* lmsg + "+"
    [] e[1] = "cat" -> rec.acc \o e[2]
    [] e[1] = "st" ->
         IF e[2] = 0 THEN s.fr[rec.self].state ELSE s.fr[rec.self].state + e[2]
    [] e[1] = "pl" -> rec.cmdv
    \* (*result).value of a generator
    [] e[1] = "val" -> IF e[2] = 0 THEN s.result[1] ELSE rec.acc + s.result[1]
    \* a local that holds the label fresh_label() returned last
    [] e[1] = "fresh" -> s.fresh
    \* GenState<T>{y.value, p}, p the pointer release() gave
    [] e[1] = "gen" -> <<rec.cmdv, rec.acc>>
    \* the empty Result<T>
    [] e[1] = "nullopt" -> Null
    \* std::optional(val); res.value(); (bool) res and its negation
    [] e[1] = "some" -> <<rec.acc>>
    [] e[1] = "value" -> rec.acc[1]
    [] e[1] = "has" -> (rec.acc # Null) = (e[2] = 1)
    \* fuel < c.amount; fuel - c.amount
    [] e[1] = "short" -> s.fr[rec.self].state < rec.cmdv
    [] e[1] = "less" -> s.fr[rec.self].state - rec.cmdv
    \* c.han and c.res of a CmdAid<H> c
    [] e[1] = "han" -> rec.cmdv[1]
    [] e[1] = "res" -> rec.cmdv[2]
    \* CmdAid<H>{{}, c.han, p}, p the pointer release() gave
    [] e[1] = "aid" -> <<rec.cmdv, rec.acc>>

\* a call returns into the client code on top of the running context
Deliver(s, v, has) ==
  LET c == s.cur
      n == Len(s.ctx[c])
  IN  [s EXCEPT !.ctx[c][n].acc = IF has THEN v ELSE @,
                !.ctx[c][n].pc = @ + 1]

\* an std::optional<Answer> answer local is alive while its function runs
SlotAlive(s, slot) ==
  \E c \in 1..Len(s.ctx) : \E i \in 1..Len(s.ctx[c]) :
    /\ s.ctx[c][i].k \in {"handle_with", "resume"}
    /\ s.ctx[c][i].answer = slot

\* *(static_cast<std::optional<Answer>*>(metastack.front()->return_buffer)) = a
WriteAnswer(s, a) ==
  LET slot == s.fr[Head(s.ms)].return_buffer
  IN  IF slot = 0 \/ ~SlotAlive(s, slot) THEN UB(s)
      ELSE [s EXCEPT !.ans[slot] = <<a>>]

----------------------------------------------------------------------------
(* Ownership.  A metaframe is held by shared_ptr: it is destroyed when the *)
(* last pointer to it goes (pointers sit in the metastack, in the stored   *)
(* stacks of resumption buffers, and in locals of running functions).  A   *)
(* fiber is held by exactly one ctx::fiber object; destroying that object  *)
(* unwinds the context, which destroys the locals on its stack.            *)

\* the handler the command object of an activation points to
\* (CmdAbet<H>::han, CmdAid<H>::han, the handler of SwappableHandleWith);
\* a lambda that has a copy of the pointer is the body argument of a
\* handle call made by an activation that has the pointer too
HanOf(rec) ==
  IF rec.p[1] \in {"main", "swap_comp", "Abet_CmdAbet",
                  "sandwich_outer", "sandwich_middle"} THEN rec.cmdv
  ELSE IF rec.p[1] = "Aid_CmdAid" THEN rec.cmdv[1]
  ELSE 0

RecHolds(rec, f) ==
  CASE rec.k = "handle_with" -> rec.h = f
    [] rec.k = "code" -> HanOf(rec) = f
    [] rec.k = "bodyFiber" -> rec.returnFrame = f
    [] rec.k = "clause" -> rec.keep = f
    [] rec.k = "plain" -> \E i \in DOMAIN rec.stored : rec.stored[i] = f
    [] OTHER -> FALSE

Held(s, f) ==
  \/ \E i \in DOMAIN s.ms : s.ms[i] = f
  \/ \E g \in DOMAIN s.fr :
       /\ s.fr[g].alive
       /\ \E c \in Cmds : \E i \in DOMAIN s.fr[g].stored[c] : s.fr[g].stored[c][i] = f
  \/ \E c \in DOMAIN s.ctx : \E i \in DOMAIN s.ctx[c] : RecHolds(s.ctx[c][i], f)

CtxHeld(s, c) ==
  \/ c = s.cur
  \/ \E f \in DOMAIN s.fr : s.fr[f].alive /\ s.fr[f].fiber = c
  \/ \E d \in DOMAIN s.ctx : \E i \in DOMAIN s.ctx[d] :
       /\ s.ctx[d][i].k \in {"run_return", "no_resume"}
       /\ s.ctx[d][i].prev = c

\* a destructor that leaves the stored stack where it is
DestroyResumptionKeepStack(s, r) == s

\* ~resumption(): if (data) { data->command_result_buffer = {};
\*   std::list<metaframe_ptr> _(std::move(data->stored_metastack)); }
\* (the buffer is never engaged, so resetting it changes nothing)
DestroyResumption(s, r) ==
  IF r = Null THEN s
  ELSE [s EXCEPT !.fr[r[1]].stored[r[2]] = <<>>]

\* one item written to the output: a string or a number
Line(str, num) == [s |-> str, n |-> num]

\* the commands whose class writes a line when an object of it is
\* constructed, copied or destroyed (Cmd of test/command-lifetime.cpp)
HasLifecycle(cmd) == cmd = "LifetimeCmd"

\* the activation has a Cmd object as a local or as a parameter
HoldsCmd(rec) ==
  /\ rec.k = "code"
  /\ rec.p[1] \in {"myComputation", "LifetimeHandler_LifetimeCmd"}
  /\ rec.cmdv # 0

\* rand() % 1000 of the n-th object constructed
RandId(n) == input.vec[n]

\* Cmd() : id(rand() % 1000) { std::cout << id << " born" << std::endl; }
NewCmd(s) ==
  LET id == RandId(Len(s.objs) + 1)
  IN  [s EXCEPT !.objs = Append(@, [id |-> id, alive |-> TRUE, from |-> 0]),
                !.trace = Append(@, Line("born", id))]

\* Cmd(const Cmd& cmd): a new id, a line with both ids, no member copied;
\* reading the id of a destroyed object is undefined
CopyCmd(s, o) ==
  LET id == RandId(Len(s.objs) + 1)
  IN  IF ~s.objs[o].alive THEN UB(s)
      ELSE [s EXCEPT !.objs = Append(@, [id |-> id, alive |-> TRUE, from |-> o]),
                     !.trace = Append(@, [s |-> "born (copied from", n |-> id,
                                          from |-> s.objs[o].id])]

\* ~Cmd() { std::cout << id << " dead" << std::endl; }
DestroyCmd(s, o) ==
  IF ~s.objs[o].alive THEN UB(s)
  ELSE [s EXCEPT !.objs[o].alive = FALSE,
                 !.trace = Append(@, Line("dead", s.objs[o].id))]

\* the parameters of handle_command are destroyed when it returns
DestroyArgument(s) ==
  IF HoldsCmd(Last(s.ctx[s.cur])) THEN DestroyCmd(s, Last(s.ctx[s.cur]).cmdv) ELSE s

\* a handle_command that takes the command by reference
CallClauseByReference(s, p, f, cmd, payload, r) ==
  Push(s, p, CodeRec(ClauseOf(s.fr[f].cls, cmd), 0, r, payload, f))

\* this->handle_command(cmd, resumption(rd)) on context p: the parameter
\* Cmd is initialised with a copy of the invoker's command, made here
CallClause(s, p, f, cmd, payload, r) ==
  LET s1 == IF HasLifecycle(cmd) THEN CopyCmd(s, payload) ELSE s
      arg == IF HasLifecycle(cmd) THEN Len(s1.objs) ELSE payload
  IN  Push(s1, p, CodeRec(ClauseOf(s.fr[f].cls, cmd), 0, r, arg, f))

RECURSIVE Unwind(_, _)
Unwind(s, recs) ==
  IF recs = <<>> THEN s
  ELSE LET rec == Last(recs)
           s0 == IF HoldsCmd(rec) THEN DestroyCmd(s, rec.cmdv) ELSE s
           s1 == IF rec.k = "code" THEN DestroyResumption(s0, rec.r) ELSE s
       IN  Unwind(s1, Front(recs))

KillCtx(s, c) == [Unwind(s, s.ctx[c]) EXCEPT !.ctx[c] = <<>>]

\* handler classes whose destructor writes a line
\* (~MyHandler and ~EscapeHandler of test/handler-lifetime.cpp)
PrintsAtDeath(cls) ==
  cls \in {"MyHandler", "MyHandlerNoManage", "EscapeHandler",
           "MyEscapeHandler", "MyEscapeHandlerNoManage"}

\* the last shared_ptr to the frame went: the handler's destructor runs, then
\* the destructors of its members (the fiber, the resumption buffers)
KillFrame(s, f) ==
  [s EXCEPT !.fr[f].alive = FALSE, !.fr[f].fiber = 0,
            !.fr[f].stored = [c \in Cmds |-> <<>>],
            !.trace = IF PrintsAtDeath(s.fr[f].cls)
                      THEN Append(@, Line("The handler is dead!", 0))
                      ELSE @]

RECURSIVE Sweep(_)
Sweep(s) ==
  LET deadF == {f \in DOMAIN s.fr : s.fr[f].alive /\ ~Held(s, f)}
      deadC == {c \in DOMAIN s.ctx : s.ctx[c] # <<>> /\ ~CtxHeld(s, c)}
  IN  IF deadF # {} THEN Sweep(KillFrame(s, CHOOSE f \in deadF : TRUE))
      ELSE IF deadC # {} THEN Sweep(KillCtx(s, CHOOSE c \in deadC : TRUE))
      ELSE s

\* the expression an instruction of client code evaluates
ExprOf(ins) ==
  CASE ins.op = "inv" -> ins.c
    [] ins.op = "handle" -> ins.d
    [] ins.op \in {"ret", "resume", "tail", "outs", "outn", "set", "put", "find",
                   "tailOf", "make", "handleWith", "resumeOf", "if"} ->
         ins.a
    [] OTHER -> Null

\* the instruction reads or writes a field of the handler object
\* (this->msg, this->state, this->gen)
Touches(ins) ==
  \/ ins.op \in {"put", "store"}
  \/ ExprOf(ins) # Null /\ ExprOf(ins)[1] \in {"st", "short", "less"}

\* the running clause is about to use a field of its handler after the
\* handler object was destroyed
DeadAccess(s) ==
  /\ s.status = "run"
  /\ Top(s).k = "code"
  /\ Top(s).self # 0
  /\ ~s.fr[Top(s).self].alive
  /\ Touches(Instr(s))

\* one step of the program from s: the operation gives t and the destructors
\* of what it released have run; a use of a destroyed handler is undefined
Step(s, t) == IF DeadAccess(s) THEN UB(s) ELSE Sweep(t)

----------------------------------------------------------------------------
(* handle / handle_with.                                                   *)

\* the bodies that are lambdas with a copy of the command c, or of the
\* handler, of the function that makes them ([=])
Captures(body) == body[1] \in {"Swappable_outer", "Aid_outer", "Aid_inner"}

\* the local of the calling function that the body lambda has a copy of
\* (the handler_ref it of [=] or [it])
CapturedLocal(s, body) == IF body[1] = "ref_inner" THEN Top(s).acc ELSE 0

\* the function object that the body fiber c executes is the parameter
\* body of the handle_with that made the fiber (the fiber's lambda holds a
\* reference to it, [&], and tangible<Body> b(body) calls it in place): it
\* lives until that handle_with returns or is unwound
BodyFunctionAlive(s, c) ==
  \E d \in DOMAIN s.ctx : \E i \in DOMAIN s.ctx[d] :
    s.ctx[d][i].k = "handle_with" /\ s.ctx[d][i].body = c

\* the activation is about to read what the lambda of the body captured:
\* func in the inner lambda of resumption::resumption(std::function), after
\* invoke_command(Arg) returned; the copies of [=] at the start of a body
ReadsCaptured(rec) ==
  \/ rec.p = P("ctor_inner", 0) /\ rec.pc = 2
  \/ (Captures(rec.p) \/ rec.p = P("ref_inner", 0)) /\ rec.pc = 1

\* the running body is about to read a member of its closure after the
\* function object was destroyed
DeadClosure(s) ==
  /\ s.status = "run"
  /\ Top(s).k = "code"
  /\ ReadsCaptured(Top(s))
  /\ ~BodyFunctionAlive(s, s.cur)

\* a handle_with whose body fiber does not save the fiber of its caller
HandleWithUnsaved(s, lab, body, h) ==
  LET H == Cls(s.fr[h].cls)
      front == Head(s.ms)
      slot == Len(s.ans) + 1
      act == [k |-> "handle_with", h |-> h,
              answer |-> IF H.avoid THEN 0 ELSE slot,
              prevBuffer |-> s.fr[front].return_buffer,
              body |-> Len(s.ctx) + 1]
      s1 == IF H.avoid THEN s
            ELSE [s EXCEPT !.ans = Append(@, <<>>),
                           !.fr[front].return_buffer = slot]
      s2 == Push(s1, s.cur, act)
      c == Len(s.ctx) + 1
  IN  [s2 EXCEPT !.fr[h].label = lab,
                 !.ms = <<h>> \o @,
                 !.ctx = Append(@, <<[k |-> "bodyFiber", h |-> h, returnFrame |-> 0],
                                     CodeRec(body, CapturedLocal(s, body), Null,
                                             IF Captures(body) THEN Top(s).cmdv ELSE 0,
                                             0)>>),
                 !.cur = c]

\* handle_with(label, body, handler) up to the start of the body: the answer
\* local, the return_buffer of the caller's frame, then the body fiber, whose
\* entry saves the caller's fiber in the front frame and pushes the handler
HandleWith(s, lab, body, h) ==
  LET H == Cls(s.fr[h].cls)
      front == Head(s.ms)
      slot == Len(s.ans) + 1
      act == [k |-> "handle_with", h |-> h,
              answer |-> IF H.avoid THEN 0 ELSE slot,
              prevBuffer |-> s.fr[front].return_buffer,
              body |-> Len(s.ctx) + 1]
      s1 == IF H.avoid THEN s
            ELSE [s EXCEPT !.ans = Append(@, <<>>),
                           !.fr[front].return_buffer = slot]
      s2 == Push(s1, s.cur, act)
      c == Len(s.ctx) + 1
  IN  [s2 EXCEPT !.fr[front].fiber = s.cur,
                 !.fr[h].label = lab,
                 !.ms = <<h>> \o @,
                 !.ctx = Append(@, <<[k |-> "bodyFiber", h |-> h, returnFrame |-> 0],
                                     CodeRec(body, CapturedLocal(s, body), Null,
                                             IF Captures(body) THEN Top(s).cmdv ELSE 0,
                                             0)>>),
                 !.cur = c]

\* a handle whose fresh_label does not count down
HandleSameLabel(s, ins) ==
  LET h == Len(s.fr) + 1
      st0 == Eval(ins.d, Top(s), s)
      lab == IF ins.b = Null THEN s.fresh - 1 ELSE ins.b[1]
      s1 == [s EXCEPT !.fr = Append(@, NewFrame(ins.a, st0))]
  IN  HandleWith(s1, lab, ins.c, h)

\* a handle that pushes the new frame onto the metastack twice
HandleTwice(s, ins) ==
  LET h == Len(s.fr) + 1
      st0 == Eval(ins.d, Top(s), s)
      lab == IF ins.b = Null THEN s.fresh - 1 ELSE ins.b[1]
      s1 == [s EXCEPT !.fr = Append(@, NewFrame(ins.a, st0)),
                      !.fresh = IF ins.b = Null THEN @ - 1 ELSE @]
  IN  [HandleWith(s1, lab, ins.c, h) EXCEPT !.ms = <<h>> \o @]

\* handle<H>(label, body, args...) and handle<H>(body, args...): the handler is
\* made by make_shared<H>(args...), the label is given or fresh_label()
HandleOp(s, ins) ==
  LET h == Len(s.fr) + 1
      st0 == Eval(ins.d, Top(s), s)
      lab == IF ins.b = Null THEN s.fresh - 1 ELSE ins.b[1]
      s1 == [s EXCEPT !.fr = Append(@, NewFrame(ins.a, st0)),
                      !.fresh = IF ins.b = Null THEN @ - 1 ELSE @]
  IN  HandleWith(s1, lab, ins.c, h)

\* a handle_with that installs a new handler of the class of the given one
HandleWithNewHandler(s, ins) ==
  LET h == Len(s.fr) + 1
      given == Eval(ins.a, Top(s), s)
      s1 == [s EXCEPT !.fr = Append(@, NewFrame(s.fr[given].cls, 0)),
                      !.fresh = @ - 1]
  IN  HandleWith(s1, s.fresh - 1, ins.c, h)

\* handle_with(body, handler): the handler exists, the label is fresh_label()
HandleWithOp(s, ins) ==
  HandleWith([s EXCEPT !.fresh = @ - 1], s.fresh - 1, ins.c, Eval(ins.a, Top(s), s))

\* a body return that leaves the handler's frame on the metastack
BodyReturnKeepFrame(s, b) ==
  LET c == s.cur
      returnFrame == Head(s.ms)
      p == s.fr[Head(Tail(s.ms))].fiber
      H == Cls(s.fr[returnFrame].cls)
      s2 == Push(s, p, [k |-> "run_return", prev |-> c, h |-> returnFrame])
      s3 == Push(s2, p, CodeRec(H.ret, IF H.bvoid THEN 0 ELSE b, Null, 0, returnFrame))
  IN  IF p = 0 THEN UB(s) ELSE [s3 EXCEPT !.cur = p]

\* the body returned b: the frame is popped into returnFrame and the return
\* clause is run on the fiber of the new front frame (resume_with)
BodyReturnOp(s, b) ==
  LET c == s.cur
      returnFrame == Head(s.ms)
      rest == Tail(s.ms)
      p == s.fr[Head(rest)].fiber
      H == Cls(s.fr[returnFrame].cls)
      n == Len(s.ctx[c])
      s1 == [s EXCEPT !.ms = rest,
                      !.fr[Head(rest)].fiber = 0,
                      !.ctx[c] = <<[@[n - 1] EXCEPT !.returnFrame = returnFrame]>>]
      s2 == Push(s1, p, [k |-> "run_return", prev |-> c, h |-> returnFrame])
      s3 == Push(s2, p, CodeRec(H.ret, IF H.bvoid THEN 0 ELSE b, Null, 0, returnFrame))
  IN  IF p = 0 THEN UB(s) ELSE [s3 EXCEPT !.cur = p]

\* run_return gave a: it is stored through the front frame's return_buffer,
\* the lambda ends (the body's fiber, its argument, is destroyed) and the
\* function that was waiting on this fiber goes on
ReturnClauseReturnOp(s, a) ==
  LET H == Cls(s.fr[Caller(s).h].cls)
      s1 == IF H.avoid THEN s ELSE WriteAnswer(s, a)
  IN  Pop(Pop(s1, s.cur), s.cur)

\* a loop that empties the slot without resuming what was in it
TrampolineSkip(s) == [s EXCEPT !.tail = Null]

\* the trampoline loop of handle_with and resumption_data::resume, one turn:
\* temp = *tail_resumption; tail_resumption = {}; temp->tail_resume()
TrampolineOp(s) ==
  LET rd == s.tail
      st == s.fr[rd[1]].stored[rd[2]]
      t == IF st = <<>> THEN 0 ELSE s.fr[Head(st)].fiber
      s1 == [s EXCEPT !.tail = Null,
                      !.fr[Head(st)].fiber = 0]
      s2 == [s1 EXCEPT !.fr[Head(s.ms)].fiber = s.cur]
  IN  IF t = 0 THEN UB(s)
      ELSE [s2 EXCEPT !.ms = st \o @,
                      !.fr[rd[1]].stored[rd[2]] = <<>>,
                      !.cur = t]

\* a return from handle_with or resume that pops the front frame
HandleExitPop(s) ==
  LET act == Top(s)
      void == act.answer = 0
      s1 == IF void THEN [s EXCEPT !.ms = Tail(@)]
            ELSE [s EXCEPT !.fr[Head(s.ms)].return_buffer = act.prevBuffer,
                           !.ms = Tail(@)]
      s2 == Pop(s1, s.cur)
  IN  IF void THEN Deliver(s2, 0, FALSE)
      ELSE IF s.ans[act.answer] = <<>> THEN UB(s)
      ELSE Deliver(s2, s.ans[act.answer][1], TRUE)

\* after the loop: metastack.front()->return_buffer = prevBuffer;
\* return std::move(*answer)
HandleExitOp(s) ==
  LET act == Top(s)
      void == act.answer = 0
      s1 == IF void THEN s
            ELSE [s EXCEPT !.fr[Head(s.ms)].return_buffer = act.prevBuffer]
      s2 == Pop(s1, s.cur)
  IN  IF void THEN Deliver(s2, 0, FALSE)
      ELSE IF s.ans[act.answer] = <<>> THEN UB(s)
      ELSE Deliver(s2, s.ans[act.answer][1], TRUE)

----------------------------------------------------------------------------
(* invoke_command.                                                         *)

Least(S) == CHOOSE i \in S : \A j \in S : i <= j

Greatest(S) == CHOOSE i \in S : \A j \in S : j <= i

\* a scan that keeps the last declaring frame instead of stopping at the first
FindByTypeOutermost(s, cmd) ==
  LET hits == {i \in DOMAIN s.ms : Declares(s.fr[s.ms[i]].cls, cmd)}
  IN  IF hits = {} THEN 0 ELSE Greatest(hits)

\* for (it = metastack.begin(); ...) if (dynamic_pointer_cast<
\* can_invoke_command<Cmd>>(*it)): the index of the first frame that declares
\* cmd, 0 when the loop ends without one
FindByType(s, cmd) ==
  LET hits == {i \in DOMAIN s.ms : Declares(s.fr[s.ms[i]].cls, cmd)}
  IN  IF hits = {} THEN 0 ELSE Least(hits)

\* a search that stops at the front frame whatever its label
FindNearest(s, l) == IF s.ms = <<>> THEN 0 ELSE 1

\* std::find_if(metastack.begin(), metastack.end(), label == goto_handler):
\* the index of the first frame with that label, 0 for end()
FindByLabel(s, l) ==
  LET hits == {i \in DOMAIN s.ms : s.fr[s.ms[i]].label = l}
  IN  IF hits = {} THEN 0 ELSE Least(hits)

\* a handler_ref that designates whatever frame has the label of f
FindRefByLabel(s, f) == FindByLabel(s, s.fr[f].label)

\* a handler_ref is an iterator of the list of frames: it designates the
\* node of frame f for as long as the node exists (splice moves nodes between
\* lists without invalidating iterators); std::next(it) is a position of the
\* metastack only while the node is in the metastack (0 otherwise)
FindRef(s, f) ==
  LET hits == {i \in DOMAIN s.ms : s.ms[i] = f}
  IN  IF hits = {} THEN 0 ELSE Least(hits)

\* a static_invoke_command that takes the outermost frame of class H
StaticTargetOutermost(s, ins) ==
  LET hits == {i \in DOMAIN s.ms : s.fr[s.ms[i]].cls = ins.b[1]}
  IN  IF hits = {} THEN 0 ELSE Greatest(hits)

\* static_invoke_command<H>(cmd): it = metastack.begin();
\* static_invoke_command<H>(label, cmd): it = find_if(label == goto_handler);
\* then static_cast<H*>(it->get())->H::invoke_command(std::next(it), cmd),
\* which is a call of H's clause only if the frame is an H (0 otherwise)
StaticTarget(s, ins) ==
  LET i == IF ins.d = 3 THEN 1 ELSE FindByLabel(s, ins.b[2])
  IN  IF i # 0 /\ s.fr[s.ms[i]].cls = ins.b[1] THEN i ELSE 0

\* the frame an invoke instruction selects
Target(s, ins) ==
  IF ins.d = 1 THEN FindRef(s, Top(s).acc)
  ELSE IF ins.d = 2 THEN FindByLabel(s, Top(s).acc)
  ELSE IF ins.d \in {3, 4} THEN StaticTarget(s, ins)
  ELSE IF ins.b = Null THEN FindByType(s, ins.a) ELSE FindByLabel(s, ins.b[1])

\* the selected frame can serve the command, by a clause of kind kind
Serves(s, ins, kind) ==
  LET i == Target(s, ins)
  IN  /\ i # 0
      /\ Declares(s.fr[s.ms[i]].cls, ins.a)
      /\ KindOf(s.fr[s.ms[i]].cls, ins.a) = kind

\* std::cerr << "error: handler with id " << goto_handler
\*           << " does not handle " << typeid(Cmd).name() << std::endl;
ErrorLine(l, cmd) == [s |-> "error: handler with id", n |-> l, cmd |-> cmd]

\* invoke_command when no clause is called.  By type: the loop ends,
\* debug_print_metastack(); exit(-1).  By label: find_if returns end() when no
\* frame has the label and *it is undefined; when the frame found does not
\* declare the command, the error line, debug_print_metastack(), exit(-1)
InvokeFailOp(s, ins) ==
  LET dump == Line("debug_print_metastack", Len(s.ms))
  IN  IF ins.d = 1 THEN UB(s)
      \* static_invoke_command<H>(label, cmd): the error line when no frame
      \* has the label; a frame of another class is used as an H
      ELSE IF ins.d = 2
      THEN IF FindByLabel(s, Top(s).acc) # 0 THEN UB(s)
           ELSE Exit([s EXCEPT !.trace = @ \o
                        <<ErrorLine(Top(s).acc, ins.a), dump>>])
      \* static_invoke_command<H>(cmd): the front frame is used as an H
      ELSE IF ins.d = 3 THEN UB(s)
      \* static_invoke_command<H>(label, cmd) with H named
      ELSE IF ins.d = 4
      THEN IF FindByLabel(s, ins.b[2]) # 0 THEN UB(s)
           ELSE Exit([s EXCEPT !.trace = @ \o <<ErrorLine(ins.b[2], ins.a), dump>>])
      ELSE IF ins.b = Null
      THEN Exit([s EXCEPT !.trace = Append(@, dump)])
      ELSE IF FindByLabel(s, ins.b[1]) = 0 THEN UB(s)
      ELSE Exit([s EXCEPT !.trace = @ \o <<ErrorLine(ins.b[1], ins.a), dump>>])

\* an invoke_command without the local pointer to the handler
ClauseInvokeNoKeep(s, i, cmd, payload) ==
  LET f == s.ms[i]
      rest == SubSeq(s.ms, i + 1, Len(s.ms))
      newStored == SubSeq(s.ms, 1, i) \o s.fr[f].stored[cmd]
      t == Head(rest)
      p == s.fr[t].fiber
      s1 == [s EXCEPT !.ms = rest,
                      !.fr[f].stored[cmd] = newStored,
                      !.fr[t].fiber = 0]
      s2 == [s1 EXCEPT !.fr[Head(newStored)].fiber = s.cur]
      \* at: the metastack at the invocation, a history value the code does
      \* not keep; only the properties read it
      s3 == Push(s2, s.cur, [k |-> "invoke_command", rd |-> <<f, cmd>>, at |-> s.ms])
      s4 == Push(s3, p, [k |-> "clause", h |-> f, keep |-> 0, at |-> s.ms])
      s5 == CallClause(s4, p, f, cmd, payload, <<f, cmd>>)
  IN  IF p = 0 THEN UB(s) ELSE [s5 EXCEPT !.cur = p]

\* command_clause<Answer, Cmd>::invoke_command(it, cmd), it = std::next of
\* the handler: the frames up to and including the handler are spliced into
\* the front of the handler's resumption buffer, and the clause is run on
\* the fiber of the new front frame with a resumption made of that buffer
ClauseInvokeOp(s, i, cmd, payload) ==
  LET f == s.ms[i]
      rest == SubSeq(s.ms, i + 1, Len(s.ms))
      newStored == SubSeq(s.ms, 1, i) \o s.fr[f].stored[cmd]
      t == Head(rest)
      p == s.fr[t].fiber
      s1 == [s EXCEPT !.ms = rest,
                      !.fr[f].stored[cmd] = newStored,
                      !.fr[t].fiber = 0]
      s2 == [s1 EXCEPT !.fr[Head(newStored)].fiber = s.cur]
      \* at: the metastack at the invocation, a history value the code does
      \* not keep; only the properties read it
      s3 == Push(s2, s.cur, [k |-> "invoke_command", rd |-> <<f, cmd>>, at |-> s.ms])
      s4 == Push(s3, p, [k |-> "clause", h |-> f, keep |-> Last(newStored),
                           at |-> s.ms])
      s5 == CallClause(s4, p, f, cmd, payload, <<f, cmd>>)
  IN  IF p = 0 THEN UB(s) ELSE [s5 EXCEPT !.cur = p]

\* the rest of command_clause::invoke_command, reached when the resumption is
\* resumed: Out cmdResult = std::move(rd.command_result_buffer->value);
\* rd.stored_metastack.clear(); return cmdResult  (the read goes through the
\* same empty optional as the write; a run gets here only if the write went
\* into the storage, and then the read finds it there)
InvokeReturnOp(s) ==
  LET rd == Top(s).rd
      v == s.fr[rd[1]].crb[rd[2]]
      s1 == [s EXCEPT !.fr[rd[1]].stored[rd[2]] = <<>>]
  IN  Deliver(Pop(s1, s.cur), v, ~OutVoid(rd[2]))

\* a clause return that drops the clause's value
ClauseReturnDropValue(s, a) ==
  Pop(Pop(DestroyResumption(DestroyArgument(s), Top(s).r), s.cur), s.cur)

\* handle_command returned a: its arguments (the command, the resumption)
\* are destroyed, a is stored through the front frame's return_buffer, and
\* the function that was waiting on this fiber goes on
ClauseReturnOp(s, a) ==
  LET H == Cls(s.fr[Caller(s).h].cls)
      s1 == DestroyResumption(DestroyArgument(s), Top(s).r)
      s2 == IF H.avoid THEN s1 ELSE WriteAnswer(s1, a)
  IN  Pop(Pop(s2, s.cur), s.cur)

\* a plain clause called with the frames above the handler set aside and the
\* handler's own frame left at the front of the metastack
PlainInvokeAbove(s, i, cmd, payload) ==
  LET f == s.ms[i]
      local == SubSeq(s.ms, 1, i - 1)
      rest == SubSeq(s.ms, i, Len(s.ms))
      s1 == IF local = <<>> THEN s
            ELSE [s EXCEPT !.ms = rest,
                           !.fr[Head(local)].fiber = s.fr[f].fiber,
                           !.fr[f].fiber = s.fr[Head(local)].fiber]
      s2 == Push(s1, s.cur, [k |-> "plain", h |-> f, stored |-> local, cmd |-> cmd,
                           at |-> s.ms])
  IN  CallClause(s2, s.cur, f, cmd, payload, Null)

\* a plain clause called with the handler's own frame set aside and the
\* frames installed inside its body left on the metastack
PlainInvokeAlone(s, i, cmd, payload) ==
  LET f == s.ms[i]
      local == <<f>>
      rest == SubSeq(s.ms, 1, i - 1) \o SubSeq(s.ms, i + 1, Len(s.ms))
      b == Head(rest)
      s1 == [s EXCEPT !.ms = rest,
                      !.fr[f].fiber = s.fr[b].fiber,
                      !.fr[b].fiber = s.fr[f].fiber]
      s2 == Push(s1, s.cur, [k |-> "plain", h |-> f, stored |-> local, cmd |-> cmd,
                           at |-> s.ms])
  IN  CallClause(s2, s.cur, f, cmd, payload, Null)

\* command_clause<Answer, plain<Cmd>>::invoke_command: the frames are spliced
\* into a local list, the fibers of the two front frames are swapped, and the
\* clause is called on the invoker's own fiber
PlainInvokeOp(s, i, cmd, payload) ==
  LET f == s.ms[i]
      local == SubSeq(s.ms, 1, i)
      rest == SubSeq(s.ms, i + 1, Len(s.ms))
      a == Head(local)
      b == Head(rest)
      s1 == [s EXCEPT !.ms = rest,
                      !.fr[a].fiber = s.fr[b].fiber,
                      !.fr[b].fiber = s.fr[a].fiber]
      s2 == Push(s1, s.cur, [k |-> "plain", h |-> f, stored |-> local, cmd |-> cmd,
                           at |-> s.ms])
  IN  CallClause(s2, s.cur, f, cmd, payload, Null)

\* a plain clause whose value does not reach the invoker
PlainReturnDropResult(s, a) ==
  LET act == Caller(s)
      x == Head(act.stored)
      y == Head(s.ms)
      s1 == [s EXCEPT !.fr[x].fiber = s.fr[y].fiber,
                      !.fr[y].fiber = s.fr[x].fiber,
                      !.ms = act.stored \o @]
  IN  Deliver(Pop(Pop(s1, s.cur), s.cur), a, FALSE)

\* handle_command(cmd) returned a: swap the fibers back, splice the frames
\* back, return a to the invoker
PlainReturnOp(s, a) ==
  LET act == Caller(s)
      x == Head(act.stored)
      y == Head(s.ms)
      s1 == [s EXCEPT !.fr[x].fiber = s.fr[y].fiber,
                      !.fr[y].fiber = s.fr[x].fiber,
                      !.ms = act.stored \o @]
  IN  Deliver(Pop(Pop(s1, s.cur), s.cur), a, ~OutVoid(act.cmd))

\* an erase that stops before the handler's own frame
NoResumeKeepHandler(s, i, cmd, payload) ==
  LET f == s.ms[i]
      rest == SubSeq(s.ms, i, Len(s.ms))
      t == Head(rest)
      p == s.fr[t].fiber
      s1 == [s EXCEPT !.ms = rest, !.fr[t].fiber = 0]
      s2 == Push(s1, p, [k |-> "no_resume", h |-> f, prev |-> s.cur])
      s3 == CallClause(s2, p, f, cmd, payload, Null)
  IN  IF p = 0 THEN UB(s) ELSE [s3 EXCEPT !.cur = p]

\* command_clause<Answer, no_resume<Cmd>>::invoke_command: the frames up to
\* and including the handler are erased, and the clause is run on the fiber
\* of the new front frame; the invoker's fiber is the lambda's argument
NoResumeInvokeOp(s, i, cmd, payload) ==
  LET f == s.ms[i]
      rest == SubSeq(s.ms, i + 1, Len(s.ms))
      t == Head(rest)
      p == s.fr[t].fiber
      s1 == [s EXCEPT !.ms = rest, !.fr[t].fiber = 0]
      s2 == Push(s1, p, [k |-> "no_resume", h |-> f, prev |-> s.cur])
      s3 == CallClause(s2, p, f, cmd, payload, Null)
  IN  IF p = 0 THEN UB(s) ELSE [s3 EXCEPT !.cur = p]

\* handle_command(cmd) returned a: a is stored through the front frame's
\* return_buffer; the lambda ends and the invoker's fiber is destroyed
NoResumeReturnOp(s, a) ==
  LET H == Cls(s.fr[Caller(s).h].cls)
      s1 == IF H.avoid THEN s ELSE WriteAnswer(s, a)
  IN  Pop(Pop(s1, s.cur), s.cur)

\* a no_manage clause that keeps no resumption, as a no_resume clause
NoManageAsNoResume(s, i, cmd, payload) == NoResumeInvokeOp(s, i, cmd, payload)

\* command_clause<Answer, no_manage<Cmd>>::invoke_command: the same splice
\* and the same call of the clause, without the pointer that keeps the
\* handler alive for the duration of the clause
NoManageInvokeOp(s, i, cmd, payload) ==
  LET t == ClauseInvokeOp(s, i, cmd, payload)
      n == Len(t.ctx[t.cur])
  IN  IF t.status = "ub" THEN t
      ELSE [t EXCEPT !.ctx[t.cur][n - 1].keep = 0]

----------------------------------------------------------------------------
(* Resumptions.                                                            *)

\* a resume that switches to the stored fiber without an answer local of its
\* own: the front frame's return_buffer is left as it was
DataResumeKeepBuffer(s, rd) ==
  LET H == Cls(s.fr[rd[1]].cls)
      front == Head(s.ms)
      slot == Len(s.ans) + 1
      st == s.fr[rd[1]].stored[rd[2]]
      t == IF st = <<>> THEN 0 ELSE s.fr[Head(st)].fiber
      act == [k |-> "resume", rd |-> rd,
              answer |-> IF H.avoid THEN 0 ELSE slot,
              prevBuffer |-> s.fr[front].return_buffer]
      s1 == IF H.avoid THEN s ELSE [s EXCEPT !.ans = Append(@, <<>>)]
      s2 == Push(s1, s.cur, act)
      s3 == [s2 EXCEPT !.fr[Head(st)].fiber = 0]
      s4 == [s3 EXCEPT !.fr[front].fiber = s.cur]
  IN  IF t = 0 THEN UB(s)
      ELSE [s4 EXCEPT !.ms = st \o @,
                      !.fr[rd[1]].stored[rd[2]] = <<>>,
                      !.cur = t]

\* resumption_data<Out, Answer>::resume(): the answer local, the
\* return_buffer of the front frame, then the switch to the fiber of the
\* first stored frame, on which the caller's fiber is saved in the front
\* frame and the stored frames are spliced back onto the metastack
DataResumeOp(s, rd) ==
  LET H == Cls(s.fr[rd[1]].cls)
      front == Head(s.ms)
      slot == Len(s.ans) + 1
      st == s.fr[rd[1]].stored[rd[2]]
      t == IF st = <<>> THEN 0 ELSE s.fr[Head(st)].fiber
      act == [k |-> "resume", rd |-> rd,
              answer |-> IF H.avoid THEN 0 ELSE slot,
              prevBuffer |-> s.fr[front].return_buffer]
      s1 == IF H.avoid THEN s
            ELSE [s EXCEPT !.ans = Append(@, <<>>),
                           !.fr[front].return_buffer = slot]
      s2 == Push(s1, s.cur, act)
      s3 == [s2 EXCEPT !.fr[Head(st)].fiber = 0]
      s4 == [s3 EXCEPT !.fr[front].fiber = s.cur]
  IN  IF t = 0 THEN UB(s)
      ELSE [s4 EXCEPT !.ms = st \o @,
                      !.fr[rd[1]].stored[rd[2]] = <<>>,
                      !.cur = t]

\* What data->command_result_buffer->value = std::move(cmdResult) can do.  No
\* code ever engages the std::optional command_result_buffer (it is only
\* default-constructed and assigned {}), so operator-> is applied to an empty
\* optional: either the value lands in the optional's raw storage ("stored"),
\* or the access faults ("fault": a checked standard library aborts, an Out
\* with a non-trivial assignment works on an object that was never
\* constructed).  resumption<Answer()> (void Out) has no such write.
WriteOutcomes(r) ==
  IF r = Null \/ OutVoid(r[2]) THEN {"stored"} ELSE {"stored", "fault"}

\* a resume that does not pass its argument on
StoreNothing(s, rd, v, o) == IF o = "fault" /\ ~OutVoid(rd[2]) THEN UB(s) ELSE s

\* data->command_result_buffer->value = std::move(cmdResult)
StoreResult(s, rd, v, o) ==
  IF OutVoid(rd[2]) THEN s
  ELSE IF o = "fault" THEN UB(s)
  ELSE [s EXCEPT !.fr[rd[1]].crb[rd[2]] = v]

\* a release() that does what the destructor does
ReleaseTearDown(s) ==
  LET c == s.cur
      n == Len(s.ctx[c])
  IN  [DestroyResumption(s, Top(s).r) EXCEPT !.ctx[c][n].r = Null]

\* resumption::release(): d = data; data = nullptr; return d
Release(s) ==
  LET c == s.cur
      n == Len(s.ctx[c])
  IN  [s EXCEPT !.ctx[c][n].r = Null]

\* resumption::operator bool() const and operator!() const:
\*   return data != nullptr && (bool)data->stored_metastack.back().fiber;
\*   return data == nullptr || !data->stored_metastack.back().fiber;
\* stored_metastack.back() is a metaframe_ptr (std::shared_ptr<metaframe>),
\* which has no member fiber: both bodies are ill-formed, a program that
\* applies either operator to a resumption does not build, and the check
\* yields no truth value for any resumption r in any state s
\* (a well-formed check would give "true" or "false")
OperatorBool(s, r) == "ill-formed"

\* a resume that only stores the resumption in the trampoline slot and
\* returns at once, as tail_resume does
ResumeDeferred(s, v, o) ==
  LET rd == Top(s).r
      H == Cls(s.fr[rd[1]].cls)
      s1 == StoreResult(s, rd, v, o)
      s2 == [Release(s1) EXCEPT !.tail = rd]
  IN  IF rd = Null THEN UB(s)
      ELSE IF s1.status = "ub" THEN s1
      ELSE Deliver(s2, 0, ~H.avoid)

\* a resume that puts the stored frames back in the opposite order
ResumeReversed(s, v, o) ==
  LET rd == Top(s).r
      s1 == StoreResult(s, rd, v, o)
      t == DataResumeOp(Release(s1), rd)
  IN  IF rd = Null THEN UB(s)
      ELSE IF s1.status = "ub" THEN s1
      ELSE IF t.status = "ub" THEN t
      ELSE LET st == s.fr[rd[1]].stored[rd[2]]
           IN  [t EXCEPT !.ms = [i \in 1..Len(st) |-> st[Len(st) + 1 - i]] \o s.ms]

\* resumption<Answer(Out)>::resume(cmdResult) &&
ResumeOp(s, v, o) ==
  LET rd == Top(s).r
      s1 == StoreResult(s, rd, v, o)
  IN  IF rd = Null THEN UB(s)
      ELSE IF s1.status = "ub" THEN s1
      ELSE DataResumeOp(Release(s1), rd)

\* a tail_resume that resumes on the spot, inside the clause
TailResumeNested(s, v, o) == ResumeOp(s, v, o)

\* resumption<Answer(Out)>::tail_resume(cmdResult) &&: the resumption goes
\* into the trampoline slot and Answer() is returned
TailResumeOp(s, v, o) ==
  LET rd == Top(s).r
      H == Cls(s.fr[rd[1]].cls)
      s1 == StoreResult(s, rd, v, o)
      s2 == [Release(s1) EXCEPT !.tail = rd]
  IN  IF rd = Null THEN UB(s)
      ELSE IF s1.status = "ub" THEN s1
      ELSE Deliver(s2, 0, ~H.avoid)

----------------------------------------------------------------------------
(* Client instructions that call nothing.                                  *)

Advance(s) == Deliver(s, 0, FALSE)

LocalOp(s, ins) ==
  LET rec == Top(s)
      v == Eval(ins.a, rec, s)
  IN  CASE ins.op = "outs" -> Advance([s EXCEPT !.trace = Append(@, Line(v, 0))])
        [] ins.op = "outn" -> Advance([s EXCEPT !.trace = Append(@, Line("", v))])
        [] ins.op = "set" -> Deliver(s, v, TRUE)
        [] ins.op = "put" -> Advance([s EXCEPT !.fr[rec.self].state = v])
        \* Assign(T& x, T v) : var(x), val(x) { x = v; }
        [] ins.op = "assign" ->
             LET c == s.cur
                 n == Len(s.ctx[c])
             IN  Advance([s EXCEPT !.mem[ins.b] = ins.c,
                                   !.ctx[c][n].cmdv =
                                     [var |-> ins.b, val |-> s.mem[ins.b], n |-> ins.d]])
        \* void undo() { var = val; }
        [] ins.op = "undo" -> Advance([s EXCEPT !.mem[rec.cmdv.var] = rec.cmdv.val])
        [] ins.op = "outmem" ->
             Advance([s EXCEPT !.trace = Append(@, Line(s.mem.c, s.mem.x))])
        [] ins.op = "exit" -> Exit(s)
        \* if (e) statement: the statement is skipped when e is false
        [] ins.op = "if" ->
             IF v THEN Advance(s) ELSE Advance(Advance(s))
        \* Cmd cmd; at the head of the block
        [] ins.op = "newCmd" ->
             LET c == s.cur
                 n == Len(s.ctx[c])
             IN  Advance([NewCmd(s) EXCEPT !.ctx[c][n].cmdv = Len(s.objs) + 1])
        \* the block ends: ~Cmd() of the local
        [] ins.op = "endBlock" ->
             LET c == s.cur
                 n == Len(s.ctx[c])
                 t == DestroyCmd(s, rec.cmdv)
             IN  IF t.status # "run" THEN t
                 ELSE Advance([t EXCEPT !.ctx[c][n].cmdv = 0])
        \* std::cout << "..." << c.id: a read of a destroyed object is
        \* undefined
        [] ins.op = "outid" ->
             IF ~s.objs[rec.cmdv].alive THEN UB(s)
             ELSE Advance([s EXCEPT !.trace =
                             Append(@, Line(ins.a, s.objs[rec.cmdv].id))])
        \* std::make_shared<Reader<int, int>>(a) as the field han of a
        \* command object (or the handler given to SwappableHandleWith)
        [] ins.op = "make" ->
             LET c == s.cur
                 n == Len(s.ctx[c])
             IN  Advance([s EXCEPT !.fr = Append(@, NewFrame(ins.d, v)),
                                   !.ctx[c][n].cmdv = Len(s.fr) + 1])
        \* the command object is destroyed
        [] ins.op = "clear" ->
             LET c == s.cur
                 n == Len(s.ctx[c])
             IN  Advance([s EXCEPT !.ctx[c][n].cmdv = 0])
        \* Generator::Value(): throws out_of_range when result is empty,
        \* and nothing catches it
        [] ins.op = "value" -> IF rec.acc = Null THEN Exit(s) ELSE Advance(s)
        \* gen->result = GenState<T>{y.value, std::move(r)}
        [] ins.op = "store" ->
             Advance([Release(s) EXCEPT !.result = <<rec.cmdv, rec.r>>])

\* Res = r.release(), or r.release() kept in a local (the argument of the
\* command CutMiddlemanAbet{{}, r.release()})
EscapeOp(s) ==
  IF Instr(s).a = 1 THEN Deliver(Release(s), Top(s).r, TRUE)
  ELSE Advance([Release(s) EXCEPT !.Res = Top(s).r])

\* resumption<Answer(Out)>(rd).tail_resume(v): a resumption made of the
\* pointer rd is tail-resumed; the clause's own resumption is left alone
TailResumeOfOp(s, rd, v, o) ==
  LET c == s.cur
      n == Len(s.ctx[c])
      own == Top(s).r
      t == TailResumeOp([s EXCEPT !.ctx[c][n].r = rd], v, o)
  IN  IF t.status # "run" THEN t ELSE [t EXCEPT !.ctx[c][n].r = own]

\* a resume of Res that returns 0 at once
ResumeResDropped(s) == Deliver(s, 0, TRUE)

\* resumption<int()>(Res).resume()
ResumeResOp(s) ==
  LET c == s.cur
      n == Len(s.ctx[c])
  IN  ResumeOp([s EXCEPT !.ctx[c][n].r = s.Res], 0, "stored")

\* a resume that hands over a default-constructed value
ResumeResWithDefault(s, v, o) ==
  LET c == s.cur
      n == Len(s.ctx[c])
  IN  ResumeOp([s EXCEPT !.ctx[c][n].r = s.Res], 0, o)

\* std::move(r).resume(v) of the resumption whose data is Res
ResumeResWithOp(s, v, o) ==
  LET c == s.cur
      n == Len(s.ctx[c])
  IN  ResumeOp([s EXCEPT !.ctx[c][n].r = s.Res], v, o)

\* a resumption made of the pointer rd is resumed
\* (OneShot::Resume(std::unique_ptr<Resumption<void, B>>(c.res)))
ResumeOfOp(s, rd) ==
  LET c == s.cur
      n == Len(s.ctx[c])
  IN  ResumeOp([s EXCEPT !.ctx[c][n].r = rd], 0, "stored")

\* handler_ref find_handler<Cmd>(): the first frame that declares Cmd is
\* kept in a local; when there is none, the error line,
\* debug_print_metastack(), exit(-1)
FindHandlerTypeOp(s, cmd) ==
  LET i == FindByType(s, cmd)
  IN  IF i = 0
      THEN Exit([s EXCEPT !.trace = @ \o
                   <<Line("error: cpp_effects::find_handler did not find a handler", 0),
                     Line("debug_print_metastack", Len(s.ms))>>])
      ELSE Deliver(s, s.ms[i], TRUE)

\* handler_ref find_handler(label): the frame found is kept in a local;
\* when no frame has the label, the error line, debug_print_metastack(),
\* exit(-1)
FindHandlerOp(s, l) ==
  LET i == FindByLabel(s, l)
  IN  IF i = 0
      THEN Exit([s EXCEPT !.trace = @ \o
                   <<Line("error: cpp_effects::find_handler did not find a handler", 0),
                     Line("debug_print_metastack", Len(s.ms))>>])
      ELSE Deliver(s, s.ms[i], TRUE)

\* Generator::Next: std::move((*result).resumption).resume(), which is
\* release()->resume(); dereferencing an empty result is undefined
GeneratorNextOp(s) ==
  LET c == s.cur
      n == Len(s.ctx[c])
  IN  IF s.result = Null THEN UB(s)
      ELSE ResumeOp([s EXCEPT !.ctx[c][n].r = s.result[2],
                              !.result = <<@[1], Null>>], 0, "stored")

\* StaticGenerator::Generator::Next: throws out_of_range when result is
\* empty; result = eff::resumption<Result<T>()>(result.value().resumption)
\* .resume(): a resumption made of the pointer in result is resumed and its
\* answer becomes the result
StaticNextOp(s) ==
  LET c == s.cur
      n == Len(s.ctx[c])
  IN  IF Top(s).acc = Null THEN Exit(s)
      ELSE ResumeOp([s EXCEPT !.ctx[c][n].r = Top(s).acc[2]], 0, "stored")

\* the Generator is destroyed: ~GenState destroys the resumption it holds
DropResultOp(s) ==
  Advance(IF s.result = Null THEN s
          ELSE [DestroyResumption(s, s.result[2]) EXCEPT !.result = Null])

----------------------------------------------------------------------------
(* The state machine.                                                      *)

\* product passes 0 as the default value; a second value tells the default
\* from a product that is 0
DefaultVals == {0, 5}

Scenario(name, vec, val) == [scen |-> name, vec |-> vec, val |-> val]

\* values of rand() % 1000 (the two of the test's output)
CmdIds == {249, 807}

Inputs ==
  {Scenario(n, <<>>, 0) : n \in {"noresume", "cancel", "global", "traits", "middleman2",
                                 "middleman1", "afterReturn", "afterReturn_nm",
                                 "resumptionEscape"}}
  \cup {Scenario(n, <<>>, v) : n \in {"escapeThenResume", "escapeThenResume_nm"},
                             v \in {0, 1}}
  \cup {Scenario("product", v, d) : v \in SeqsUpTo(0..2, MaxVec), d \in DefaultVals}
  \cup {Scenario("labels", v, 0) : v \in SeqsUpTo(1..MaxDepth, 2) \ {<<>>}}
  \cup {Scenario(n, v, 0) : n \in {"state_plain", "state_tail", "state_resume"},
                            v \in SeqsUpTo(0..2, MaxOps)}
  \cup {Scenario("traitsY", <<>>, v) : v \in {1, 100}}
  \cup {Scenario("variadic", v, 0) : v \in SeqsUpTo(1..2, MaxOps)}
  \cup {Scenario(n, v, 0) : n \in {"generator", "generator_nm", "staticGenerator"},
                            v \in SeqsUpTo({0}, MaxOps)}
  \cup {Scenario("swap", <<>>, v) : v \in {5, 100}}
  \cup {Scenario("commandLifetime", <<x, y>>, 0) : x \in CmdIds, y \in CmdIds}
  \cup {Scenario("unhandled", v, 0) : v \in {<<>>, <<0>>, <<MaxDepth + 1>>}}
  \cup {Scenario("static", <<m, l, h>>, f) : m \in 0..2, l \in 1..2, h \in 1..2, f \in 0..3}
  \cup {Scenario("function", <<k>>, x) : k \in 0..2, x \in {3, 5}}
  \cup {Scenario("ref", <<m>>, f) : m \in 0..3, f \in 0..1}
  \cup {Scenario("fuel", <<n>>, f) : n \in 0..MaxDepth, f \in 0..(2 * MaxOps)}
  \cup {Scenario("labelZero", <<l>>, 0) : l \in {0, 1}}
  \cup {Scenario("sandwich", <<>>, 0)}
  \cup {Scenario("rollback", <<k>>, r) : k \in 0..4, r \in 0..1}
  \cup {Scenario("returnInvoke", <<m, o>>, 3) : m \in {0, 1}, o \in {0, 1}}
  \cup {Scenario("reinstall", <<k>>, 0) : k \in 1..2}
  \cup {Scenario("escapeThenCancel", <<k>>, 0) : k \in 0..1}
  \cup {Scenario("unhandledIn", v, 0) : v \in {<<>>, <<0>>, <<1>>, <<2>>}}

\* init_metastack: one plain metaframe; main runs on the first context
Init ==
  /\ input \in Inputs
  /\ metastack = <<1>>
  /\ frames = <<NewFrame("metaframe", 0)>>
  /\ contexts = << <<CodeRec(P("main", 0), 0, Null, 0, 0)>> >>
  /\ cur = 1
  /\ answers = <<>>
  /\ tail_resumption = Null
  /\ freshCounter = -1
  /\ Res = Null
  /\ result = Null
  /\ objects = <<>>
  /\ memory = [x |-> 1, c |-> "a"]
  /\ trace = <<>>
  /\ status = "run"

Commit(t) ==
  /\ metastack' = t.ms
  /\ frames' = t.fr
  /\ contexts' = t.ctx
  /\ cur' = t.cur
  /\ answers' = t.ans
  /\ tail_resumption' = t.tail
  /\ freshCounter' = t.fresh
  /\ Res' = t.Res
  /\ result' = t.result
  /\ objects' = t.objs
  /\ memory' = t.mem
  /\ trace' = t.trace
  /\ status' = t.status
  /\ input' = input

Payload(s) == Eval(Instr(s).c, Top(s), s)

RetVal(s) == Eval(Instr(s).a, Top(s), s)

Handle ==
  /\ AtOp(Here, "handle")
  /\ Commit(Step(Here, HandleOp(Here, Instr(Here))))

InvokeCommand ==
  /\ AtOp(Here, "inv")
  /\ Serves(Here, Instr(Here), "std")
  /\ Commit(Step(Here, ClauseInvokeOp(Here, Target(Here, Instr(Here)), Instr(Here).a,
                                 Payload(Here))))

InvokePlain ==
  /\ AtOp(Here, "inv")
  /\ Serves(Here, Instr(Here), "plain")
  /\ Commit(Step(Here, PlainInvokeOp(Here, Target(Here, Instr(Here)), Instr(Here).a,
                                Payload(Here))))

InvokeNoResume ==
  /\ AtOp(Here, "inv")
  /\ Serves(Here, Instr(Here), "no_resume")
  /\ Commit(Step(Here, NoResumeInvokeOp(Here, Target(Here, Instr(Here)), Instr(Here).a,
                                   Payload(Here))))

InvokeNoManage ==
  /\ AtOp(Here, "inv")
  /\ Serves(Here, Instr(Here), "no_manage")
  /\ Commit(Step(Here, NoManageInvokeOp(Here, Target(Here, Instr(Here)), Instr(Here).a,
                                        Payload(Here))))

InvokeFail ==
  /\ AtOp(Here, "inv")
  /\ \A kind \in {"std", "plain", "no_resume", "no_manage"} :
       ~Serves(Here, Instr(Here), kind)
  /\ Commit(Step(Here, InvokeFailOp(Here, Instr(Here))))

InvokeReturn ==
  /\ status = "run"
  /\ Top(Here).k = "invoke_command"
  /\ Commit(Step(Here, InvokeReturnOp(Here)))

BodyReturn ==
  /\ AtOp(Here, "ret")
  /\ Caller(Here).k = "bodyFiber"
  /\ Commit(Step(Here, BodyReturnOp(Here, RetVal(Here))))

ReturnClauseReturn ==
  /\ AtOp(Here, "ret")
  /\ Caller(Here).k = "run_return"
  /\ Commit(Step(Here, ReturnClauseReturnOp(Here, RetVal(Here))))

ClauseReturn ==
  /\ AtOp(Here, "ret")
  /\ Caller(Here).k = "clause"
  /\ Commit(Step(Here, ClauseReturnOp(Here, RetVal(Here))))

PlainReturn ==
  /\ AtOp(Here, "ret")
  /\ Caller(Here).k = "plain"
  /\ Commit(Step(Here, PlainReturnOp(Here, RetVal(Here))))

NoResumeReturn ==
  /\ AtOp(Here, "ret")
  /\ Caller(Here).k = "no_resume"
  /\ Commit(Step(Here, NoResumeReturnOp(Here, RetVal(Here))))

Resume ==
  /\ AtOp(Here, "resume")
  /\ \E o \in WriteOutcomes(Top(Here).r) :
       Commit(Step(Here, ResumeOp(Here, RetVal(Here), o)))

TailResume ==
  /\ AtOp(Here, "tail")
  /\ \E o \in WriteOutcomes(Top(Here).r) :
       Commit(Step(Here, TailResumeOp(Here, RetVal(Here), o)))

Trampoline ==
  /\ status = "run"
  /\ Top(Here).k \in {"handle_with", "resume"}
  /\ tail_resumption # Null
  /\ Commit(Step(Here, TrampolineOp(Here)))

\* a return from handle_with or resume that does not look at the slot
HandleExitEarly ==
  /\ status = "run"
  /\ Top(Here).k \in {"handle_with", "resume"}
  /\ Commit(Step(Here, HandleExitOp(Here)))

HandleExit ==
  /\ status = "run"
  /\ Top(Here).k \in {"handle_with", "resume"}
  /\ tail_resumption = Null
  /\ Commit(Step(Here, HandleExitOp(Here)))

ClientStep ==
  /\ status = "run"
  /\ Top(Here).k = "code"
  /\ Instr(Here).op \in {"outs", "outn", "set", "put", "exit", "store", "value",
                         "make", "clear", "newCmd", "endBlock", "outid", "if",
                         "assign", "undo", "outmem"}
  /\ Commit(Step(Here, LocalOp(Here, Instr(Here))))

Escape ==
  /\ AtOp(Here, "escape")
  /\ Commit(Step(Here, EscapeOp(Here)))

ResumeRes ==
  /\ AtOp(Here, "resumeRes")
  /\ IF Instr(Here).d = 1
     THEN \E o \in WriteOutcomes(Res) :
            Commit(Step(Here, ResumeResWithOp(Here, RetVal(Here), o)))
     ELSE Commit(Step(Here, ResumeResOp(Here)))

TailResumeOf ==
  /\ AtOp(Here, "tailOf")
  /\ \E o \in WriteOutcomes(RetVal(Here)) :
       Commit(Step(Here, TailResumeOfOp(Here, RetVal(Here), 0, o)))

FindHandler ==
  /\ AtOp(Here, "find")
  /\ Commit(Step(Here, IF Instr(Here).d = 1
                       THEN FindHandlerTypeOp(Here, Instr(Here).b)
                       ELSE FindHandlerOp(Here, RetVal(Here))))

GeneratorNext ==
  /\ AtOp(Here, "next")
  /\ Commit(Step(Here, GeneratorNextOp(Here)))

DropResult ==
  /\ AtOp(Here, "drop")
  /\ Commit(Step(Here, DropResultOp(Here)))

StaticNext ==
  /\ AtOp(Here, "renew")
  /\ Commit(Step(Here, StaticNextOp(Here)))

HandleExisting ==
  /\ AtOp(Here, "handleWith")
  /\ Commit(Step(Here, HandleWithOp(Here, Instr(Here))))

ResumeOf ==
  /\ AtOp(Here, "resumeOf")
  /\ Commit(Step(Here, ResumeOfOp(Here, RetVal(Here))))

\* the read of a member of a destroyed closure is undefined: it gives the
\* value the member had, and the body goes on by the actions above, or
\* anything else
ClosureGone ==
  /\ DeadClosure(Here)
  /\ Commit(UB(Here))

Next ==
  \/ Handle
  \/ InvokeCommand
  \/ InvokeNoManage
  \/ InvokePlain
  \/ InvokeNoResume
  \/ InvokeFail
  \/ InvokeReturn
  \/ BodyReturn
  \/ ReturnClauseReturn
  \/ ClauseReturn
  \/ PlainReturn
  \/ NoResumeReturn
  \/ Resume
  \/ TailResume
  \/ Trampoline
  \/ HandleExit
  \/ ClientStep
  \/ Escape
  \/ ResumeRes
  \/ TailResumeOf
  \/ FindHandler
  \/ GeneratorNext
  \/ DropResult
  \/ StaticNext
  \/ HandleExisting
  \/ ResumeOf
  \/ ClosureGone

Spec == Init /\ [][Next]_vars

\* main reached its end
Done == status = "run" /\ cur = 1 /\ Top(Here).k = "code" /\ Instr(Here).op = "end"

----------------------------------------------------------------------------
(* Properties.                                                             *)

\* the running context is at the first instruction of the clause of frame f
\* for command cmd
Entered(s, f, cmd) ==
  /\ s.status = "run"
  /\ Top(s).k = "code"
  /\ Top(s).pc = 1
  /\ Top(s).self = f
  /\ Top(s).p = ClauseOf(s.fr[f].cls, cmd)

\* the metastack indices of the frames whose class declares cmd
DeclaringAt(cmd) == {i \in DOMAIN metastack : Declares(frames[metastack[i]].cls, cmd)}

(* C1: invoke_command(cmd) without a label is served by the innermost       *)
(* handler on the metastack that declares the type of cmd: when some frame  *)
(* declares it, the step enters the clause of the declaring frame nearest   *)
(* to the front, and every frame nearer than it does not declare cmd,       *)
(* whatever its label.                                                      *)
TypeDispatchInnermost ==
  [][ (/\ AtOp(Here, "inv")
       /\ Instr(Here).d = 0
       /\ Instr(Here).b = Null
       /\ DeclaringAt(Instr(Here).a) # {})
      => \E i \in DeclaringAt(Instr(Here).a) :
           /\ \A j \in 1..(i - 1) : j \notin DeclaringAt(Instr(Here).a)
           /\ Entered(Here', metastack[i], Instr(Here).a) ]_vars

\* an Error clause of Catch runs while a Printer installed inside Catch, which
\* was nearer to the invocation and does not declare Error, still exists
TypeDispatchSkipsNearer ==
  \E f \in DOMAIN frames : \E g \in DOMAIN frames :
    /\ Entered(Here, f, "Error")
    /\ frames[f].cls = "Catch"
    /\ g > f
    /\ frames[g].alive
    /\ frames[g].cls = "Printer"
    /\ frames[g].label # frames[f].label

\* the invoke_command activation that waits for resumption rd is on top of
\* the running context
AtInvokeOf(s, rd) ==
  /\ s.status = "run"
  /\ Top(s).k = "invoke_command"
  /\ Top(s).rd = rd

\* a function that waits for an answer (handle_with or resume past its fiber
\* switch) is on top of the running context, with nothing left to trampoline
AtAnswer(s) ==
  /\ s.status = "run"
  /\ Top(s).k \in {"handle_with", "resume"}
  /\ s.tail = Null

(* C2: for a command clause that calls resume(v) on the resumption it was   *)
(* given, the invoke_command call that created the resumption returns       *)
(* exactly v to the invoking code, which continues from that call site:     *)
(* the resume step hands control to that invoke_command with v in its       *)
(* result buffer, and the step of that invoke_command puts the buffer's     *)
(* value in the invoker's variable and moves the invoker past the call.     *)
ResumeDeliversValue ==
  [][ /\ (AtOp(Here, "resume") /\ Top(Here).r # Null)
         => /\ AtInvokeOf(Here', Top(Here).r)
            /\ OutVoid(Top(Here).r[2])
                 \/ frames'[Top(Here).r[1]].crb[Top(Here).r[2]] = RetVal(Here)
      /\ (status = "run" /\ Top(Here).k = "invoke_command")
         => /\ status' = "run"
            /\ cur' = cur
            /\ Top(Here').k = "code"
            /\ Top(Here').p = Caller(Here).p
            /\ Top(Here').pc = Caller(Here).pc + 1
            /\ OutVoid(Top(Here).rd[2])
                 \/ Top(Here').acc = frames[Top(Here).rd[1]].crb[Top(Here).rd[2]]
    ]_vars

\* the same, for the runs in which the write into the result buffer lands in
\* the buffer's storage
ResumeDeliversValueIfStored ==
  [][ /\ (AtOp(Here, "resume") /\ Top(Here).r # Null /\ status' = "run")
         => /\ AtInvokeOf(Here', Top(Here).r)
            /\ OutVoid(Top(Here).r[2])
                 \/ frames'[Top(Here).r[1]].crb[Top(Here).r[2]] = RetVal(Here)
      /\ (status = "run" /\ Top(Here).k = "invoke_command")
         => /\ status' = "run"
            /\ cur' = cur
            /\ Top(Here').k = "code"
            /\ Top(Here').p = Caller(Here).p
            /\ Top(Here').pc = Caller(Here).pc + 1
            /\ OutVoid(Top(Here).rd[2])
                 \/ Top(Here').acc = frames[Top(Here).rd[1]].crb[Top(Here).rd[2]]
    ]_vars

\* the body of yTestOutType got back the value its clause resumed with
ResumedWithPayload ==
  /\ input.scen = "traitsY"
  /\ status = "run"
  /\ Top(Here).k = "code"
  /\ Top(Here).p = P("traitsY_body", 0)
  /\ Top(Here).pc = 2
  /\ Top(Here).acc = input.val

(* C3: resume(v) is synchronous for the command clause.  Control comes back *)
(* to a waiting resume only by the return of a return clause (the resumed   *)
(* computation completed) or of a command clause, the value that return     *)
(* produced is in resume's answer local, and when nothing is left to        *)
(* trampoline resume returns that value to the clause, which goes on after  *)
(* the call.                                                                *)
ResumeReturnsAnswer ==
  [][ /\ (/\ status' = "run"
          /\ Top(Here').k = "resume"
          /\ (cur' # cur \/ Top(Here).k # "resume"))
         => /\ AtOp(Here, "ret")
            /\ Caller(Here).k \in {"run_return", "clause", "no_resume"}
            /\ cur' = cur
            /\ Top(Here').answer = 0
                 \/ answers'[Top(Here').answer] = <<RetVal(Here)>>
      /\ (AtAnswer(Here) /\ Top(Here).k = "resume")
         => /\ status' = "run"
            /\ cur' = cur
            /\ Top(Here').k = "code"
            /\ Top(Here').pc = Caller(Here).pc + 1
            /\ Top(Here).answer = 0
                 \/ <<Top(Here').acc>> = answers[Top(Here).answer]
    ]_vars

\* a clause of HIP that resumed is back in control with the body's result
\* (the resumed computation ran to its end and through the return clause)
ResumeReturnedBodyResult ==
  /\ status = "run"
  /\ Top(Here).k = "code"
  /\ Top(Here).p = ClauseOf("HIP", "Inc")
  /\ Top(Here).pc = 2
  /\ Top(Here).acc = BodyResult

\* a command clause is returning with its resumption still in hand (never
\* resumed, released or moved) and no resumption waiting to be
\* tail-resumed, or is a no_resume clause
UnresumedReturn(s) ==
  /\ AtOp(s, "ret")
  /\ s.tail = Null
  /\ \/ Caller(s).k = "clause" /\ Top(s).r # Null
     \/ Caller(s).k = "no_resume"

(* C4: when a command clause returns a value without resuming, the value    *)
(* becomes the result of the handle / handle_with call that installed the   *)
(* handler, or of the resume call waiting on that installation: the return  *)
(* hands control to that call with the value in its answer local and        *)
(* nothing to trampoline, the call returns that value as it is (no return   *)
(* clause is applied), and the resumption is gone, so the invocation site   *)
(* is not continued.                                                        *)
UnresumedValueIsHandleResult ==
  [][ /\ UnresumedReturn(Here)
         => /\ AtAnswer(Here')
            /\ cur' = cur
            /\ Top(Here').k = "handle_with" => Top(Here').h = Caller(Here).h
            /\ Top(Here').k = "resume" => Top(Here').rd[1] = Caller(Here).h
            /\ \/ Cls(frames[Caller(Here).h].cls).avoid /\ Top(Here').answer = 0
               \/ /\ Top(Here').answer # 0
                  /\ answers'[Top(Here').answer] = <<RetVal(Here)>>
            /\ Top(Here).r # Null
                 => frames'[Top(Here).r[1]].stored[Top(Here).r[2]] = <<>>
      /\ (AtAnswer(Here) /\ Top(Here).answer # 0)
         => /\ status' = "run"
            /\ Top(Here').k = "code"
            /\ Top(Here').pc = Caller(Here).pc + 1
            /\ <<Top(Here').acc>> = answers[Top(Here).answer]
      /\ (status' = "run" /\ Top(Here').k = "invoke_command" /\ cur' # cur)
         => \/ AtOp(Here, "resume")
            \/ AtOp(Here, "resumeRes")
            \/ AtOp(Here, "next")
            \/ AtOp(Here, "renew")
            \/ AtOp(Here, "resumeOf")
            \/ status = "run" /\ Top(Here).k \in {"handle_with", "resume"}
                              /\ tail_resumption # Null
    ]_vars

\* global-from-handle: handle returned the value of the Break clause, not the
\* value of the return clause
HandleGaveClauseValue ==
  /\ input.scen = "global"
  /\ status = "run"
  /\ cur = 1
  /\ Top(Here).k = "code"
  /\ Top(Here).pc = 2
  /\ Top(Here).acc = BreakValue
  /\ BreakValue # ReturnValue

RECURSIVE ProductOf(_)
ProductOf(v) == IF v = <<>> THEN 1 ELSE Head(v) * ProductOf(Tail(v))

HasZero(v) == \E i \in DOMAIN v : v[i] = 0

IsPrefix(a, b) == Len(a) <= Len(b) /\ SubSeq(b, 1, Len(a)) = a

\* the commands whose clauses in the scenario return without resuming
\* (Catch and WithDefault for Error, HH for Break)
NeverResumes(cmd) == cmd = "Error" \/ (cmd = "Break" /\ input.scen = "global")

(* C5: if a command clause returns without ever resuming its resumption,    *)
(* no code of the handled body located after the invoke_command call        *)
(* executes: no activation is ever past an invocation of a command whose    *)
(* clause does not resume; in the product example the exit after error() is *)
(* not reached, nothing is multiplied after the first zero, and the result  *)
(* is the product when there is no zero and exactly the handler's default   *)
(* value when there is one.                                                 *)
NoCodeAfterAbandonedInvoke ==
  /\ \A c \in DOMAIN contexts : \A i \in DOMAIN contexts[c] :
       (contexts[c][i].k = "code" /\ contexts[c][i].pc > 1)
       => LET prev == Code(contexts[c][i].p, input)[contexts[c][i].pc - 1]
          IN  ~(prev.op = "inv" /\ NeverResumes(prev.a))
  /\ input.scen = "product" => status # "exit"
  /\ (input.scen = "product" /\ Done)
     => trace = <<Line("", IF HasZero(input.vec) THEN input.val
                           ELSE ProductOf(input.vec))>>

\* product over a vector with a zero after a non-zero element gave the
\* default value, which is not 0
ProductGaveDefault ==
  /\ input.scen = "product"
  /\ Done
  /\ input.vec # <<>>
  /\ input.vec[1] # 0
  /\ HasZero(input.vec)
  /\ input.val # 0
  /\ trace = <<Line("", input.val)>>

SeqRange(q) == {q[i] : i \in DOMAIN q}

\* the handle_with that installed frame f is suspended in another context:
\* a continuation that contains it was captured and the body of f was
\* resumed without it (test1 of cut-out-the-middleman)
CutOut(s, f) ==
  \E c \in DOMAIN s.ctx : \E i \in DOMAIN s.ctx[c] :
    /\ c # s.cur
    /\ s.ctx[c][i].k = "handle_with"
    /\ s.ctx[c][i].h = f

(* C6: when the handled body finishes normally, the handler's return clause *)
(* is invoked with the body's result and the handler's metaframe is removed *)
(* from the metastack; a return clause starts only at such a finish; when   *)
(* it returns, its result is in the answer local of the handle or resume    *)
(* call waiting on that installation (the call that trampolined the body    *)
(* when the handle that installed it was cut out of the continuation),      *)
(* which gets control, and the body's fiber is destroyed, so the clause     *)
(* runs once per installation.                                              *)
ReturnClauseOnce ==
  [][ /\ (AtOp(Here, "ret") /\ Caller(Here).k = "bodyFiber")
         => /\ status' = "run"
            /\ Caller(Here).h = Head(metastack)
            /\ metastack' = Tail(metastack)
            /\ Head(metastack) \notin SeqRange(metastack')
            /\ Top(Here').k = "code"
            /\ Top(Here').p = Cls(frames[Head(metastack)].cls).ret
            /\ Top(Here').pc = 1
            /\ Top(Here').self = Head(metastack)
            /\ Cls(frames[Head(metastack)].cls).bvoid
                 \/ Top(Here').acc = RetVal(Here)
            /\ Caller(Here').k = "run_return"
            /\ Caller(Here').prev = cur
      /\ (/\ status' = "run"
          /\ Top(Here').k = "code"
          /\ Top(Here').pc = 1
          /\ Len(contexts'[cur']) > 1
          /\ Caller(Here').k = "run_return")
         => (AtOp(Here, "ret") /\ Caller(Here).k = "bodyFiber")
      /\ (AtOp(Here, "ret") /\ Caller(Here).k = "run_return")
         => /\ AtAnswer(Here')
            /\ cur' = cur
            /\ Top(Here').k = "handle_with"
                 => \/ Top(Here').h = Caller(Here).h
                    \/ CutOut(Here', Caller(Here).h)
            /\ Top(Here').k = "resume" => Top(Here').rd[1] = Caller(Here).h
            /\ Top(Here').answer = 0
                 \/ answers'[Top(Here').answer] = <<RetVal(Here)>>
            /\ contexts'[Caller(Here).prev] = <<>>
            /\ Caller(Here).h \notin SeqRange(metastack')
    ]_vars

\* handler-noresume: the outer Printer's return clause added 1, once, to the
\* value its body returned
ReturnClauseApplied ==
  /\ input.scen = "noresume"
  /\ Done
  /\ Top(Here).acc = CatchValue + 1
  /\ metastack = <<1>>

\* the instruction at which the invoke_command on top of the running context
\* was called
InvokeSite(s) == Code(Caller(s).p, input)[Caller(s).pc]

\* the metastack indices of the frames that carry label l
LabelledAt(l) == {i \in DOMAIN metastack : frames[metastack[i]].label = l}

(* C7: with nested handlers that declare the same command type under        *)
(* different labels, invoke_command(L, cmd) reaches the handler installed   *)
(* with label L, whatever its depth and however many handlers of the same   *)
(* type are nearer, and the value obtained is the one held by the handler   *)
(* labelled L (L being the label of one frame of the metastack, a handler   *)
(* that declares the command).                                              *)
LabelDispatchReachesLabel ==
  [][ /\ (/\ AtOp(Here, "inv")
          /\ Instr(Here).d = 0
          /\ Instr(Here).b # Null
          /\ Cardinality(LabelledAt(Instr(Here).b[1])) = 1
          /\ \E i \in LabelledAt(Instr(Here).b[1]) :
               Declares(frames[metastack[i]].cls, Instr(Here).a))
         => \E i \in DOMAIN metastack :
              /\ frames[metastack[i]].label = Instr(Here).b[1]
              /\ Entered(Here', metastack[i], Instr(Here).a)
      /\ (/\ status = "run"
          /\ Top(Here).k = "invoke_command"
          /\ InvokeSite(Here).d = 0
          /\ InvokeSite(Here).b # Null)
         => \E i \in DOMAIN metastack :
              /\ frames[metastack[i]].label = InvokeSite(Here).b[1]
              /\ Top(Here').acc = frames[metastack[i]].state
    ]_vars

\* rec(0) read the outermost Reader past the nearer ones, then the innermost
ReadOutermostThenInnermost ==
  /\ input.scen = "labels"
  /\ Done
  /\ MaxDepth > 1
  /\ input.vec = <<MaxDepth, 1>>
  /\ trace = <<Line("", MaxDepth), Line("", 1)>>

\* the activations of command clauses (default clauses, which are given a
\* resumption), wherever they are
ClauseActivations ==
  {a \in UNION {{<<c, i>> : i \in DOMAIN contexts[c]} : c \in DOMAIN contexts} :
     /\ a[2] > 1
     /\ contexts[a[1]][a[2]].k = "code"
     /\ contexts[a[1]][a[2] - 1].k = "clause"}

(* C8: a resumption handed to a command clause reports valid; after it has  *)
(* been resumed, tail-resumed, released or moved from, it reports invalid,  *)
(* so that a second resume attempt on the same resumption object is         *)
(* detectable by the validity check.                                        *)
ValidityTellsResumable ==
  \A a \in ClauseActivations :
    LET rec == contexts[a[1]][a[2]]
    IN  /\ rec.r # Null => OperatorBool(Here, rec.r) = "true"
        /\ rec.r = Null => OperatorBool(Here, rec.r) = "false"

\* what holds of the pointer the check was meant to read: a clause starts
\* with data set, and resume, tail_resume and release leave it null
DataPointerCleared ==
  [][ /\ \A f \in DOMAIN frames : \A cmd \in Cmds :
           Entered(Here', f, cmd) /\ ~Entered(Here, f, cmd)
             /\ Caller(Here').k = "clause"
           => Top(Here').r = <<f, cmd>>
      /\ (/\ status = "run"
          /\ Top(Here).k = "code"
          /\ Instr(Here).op \in {"resume", "tail", "escape"}
          /\ status' = "run")
         => contexts'[cur][Len(contexts[cur])].r = Null
    ]_vars

RECURSIVE RefReads(_, _)
\* a plain variable x under the same gets (0) and puts (k > 0): what is read
RefReads(ops, x) ==
  IF ops = <<>> THEN <<>>
  ELSE IF Head(ops) = 0 THEN <<Line("", x)>> \o RefReads(Tail(ops), x)
  ELSE RefReads(Tail(ops), Head(ops))

StateScenarios == {"state_plain", "state_tail", "state_resume"}

(* C9: under a state handler whose get clause resumes with the stored state *)
(* and whose put clause stores the new state, every sequence of get/put     *)
(* commands issued by the body reads back exactly the value last put (or    *)
(* the initial state): what the body has read so far is at every moment a   *)
(* prefix of what a plain in-memory variable gives, and all of it when the  *)
(* program ends.                                                            *)
StateAgreesWithVariable ==
  input.scen \in StateScenarios
  => LET ref == RefReads(input.vec, InitialState) \o <<Line("", BodyResult)>>
     IN  /\ IsPrefix(trace, ref)
         /\ Done => trace = ref

\* the resumptive state handler served get, put(2), get: the initial state
\* was read, then the value put
ReadBackLastPut ==
  /\ input.scen = "state_tail"
  /\ input.vec = <<0, 2, 0>>
  /\ Done
  /\ trace = <<Line("", InitialState), Line("", 2), Line("", BodyResult)>>

\* foo's output when every command is served by resume: a, a + 1, ...
VariadicRef(n) == [i \in 1..n |-> Line("", InitialState + i - 1)]

(* C10: for a command clause whose last action is tail_resume(v), the       *)
(* handled computation behaves as if the clause had returned resume(v): the *)
(* invoker receives v (tail_resume leaves v in the result buffer and the    *)
(* resumption in the trampoline slot, and the next turn of the loop hands   *)
(* control to the invoke_command that waits for it), the same commands are  *)
(* handled in the same order whichever of the two a clause uses, and handle *)
(* returns the same final answer, never the dummy tail_resume returned.     *)
(* The write into the result buffer is the same statement in resume and in  *)
(* tail_resume: tail_resume stops the run only there, and only for a        *)
(* command with a result, as resume does.                                   *)
TailResumeAsResume ==
  /\ [](input.scen = "variadic"
        => /\ IsPrefix(trace, VariadicRef(Len(input.vec)))
           /\ Done => trace = VariadicRef(Len(input.vec)))
  /\ [](input.scen \in {"state_tail", "state_resume"} /\ Done
        => /\ trace = RefReads(input.vec, InitialState) \o <<Line("", BodyResult)>>
           /\ Top(Here).acc = BodyResult)
  /\ [][ /\ (AtOp(Here, "tail") /\ Top(Here).r # Null /\ status' # "run")
            => /\ status' = "ub"
               /\ "fault" \in WriteOutcomes(Top(Here).r)
               /\ ~OutVoid(Top(Here).r[2])
         /\ (AtOp(Here, "tail") /\ Top(Here).r # Null /\ status' = "run")
            => /\ tail_resumption' = Top(Here).r
               /\ cur' = cur
               /\ OutVoid(Top(Here).r[2])
                    \/ frames'[Top(Here).r[1]].crb[Top(Here).r[2]] = RetVal(Here)
         /\ (/\ status = "run"
             /\ Top(Here).k \in {"handle_with", "resume"}
             /\ tail_resumption # Null)
            => /\ AtInvokeOf(Here', tail_resumption)
               /\ tail_resumption' = Null
       ]_vars

\* foo was served by tail_resume, resume, tail_resume and printed what it
\* prints under resume alone
MixedClausesSameOutput ==
  /\ input.scen = "variadic"
  /\ input.vec = <<2, 1, 2>>
  /\ Done
  /\ trace = VariadicRef(3)

\* the clause and resume activations nested on context c
DepthOf(c) ==
  Cardinality({i \in DOMAIN contexts[c] : contexts[c][i].k \in {"clause", "resume"}})

\* the deepest nesting of clause / resume activations on any fiber
HandlerDepth == Greatest({DepthOf(c) : c \in DOMAIN contexts})

\* the body of the scenario is at its final return, every command served
BodyAtEnd(p) ==
  /\ status = "run"
  /\ Top(Here).k = "code"
  /\ Top(Here).p = p
  /\ Instr(Here).op = "ret"

(* C11: for a body that invokes N commands each handled by a tail-resuming  *)
(* clause, the nesting depth of clause / resume activations on the handler  *)
(* side is bounded by a constant independent of N (one clause at a time,    *)
(* each tail-resume done by one turn of the trampoline loop), whereas with  *)
(* the same clauses written with resume every served command leaves a       *)
(* clause and a resume activation nested, so that the depth is 2N when the  *)
(* body ends.                                                               *)
TailResumeDepthBounded ==
  /\ input.scen \in {"state_tail", "labels"} => HandlerDepth <= 1
  /\ (input.scen = "state_tail" /\ BodyAtEnd(P("state_body", 0)))
     => HandlerDepth = 0
  /\ (input.scen = "state_resume" /\ BodyAtEnd(P("state_body", 0)))
     => HandlerDepth = 2 * Len(input.vec)

\* the clause of the last of MaxOps puts runs under the tail-resuming state
\* handler with no other clause or resume activation below it
LastTailClauseAtDepthOne ==
  /\ input.scen = "state_tail"
  /\ Len(input.vec) = MaxOps
  /\ \A i \in DOMAIN input.vec : input.vec[i] > 0
  /\ \E f \in DOMAIN frames : Entered(Here, f, "Put")
  /\ \E c \in DOMAIN contexts : \E i \in DOMAIN contexts[c] :
       /\ contexts[c][i].k = "code"
       /\ contexts[c][i].p = P("state_body", 0)
       /\ contexts[c][i].pc = MaxOps
  /\ HandlerDepth = 1

RECURSIVE RefState(_, _)
\* a plain variable x under the same gets (0) and puts (k > 0): what it holds
RefState(ops, x) ==
  IF ops = <<>> THEN x
  ELSE RefState(Tail(ops), IF Head(ops) = 0 THEN x ELSE Head(ops))

(* C12: for a self-resumptive clause, declaring the command plain<Cmd>      *)
(* gives the same observable results as the unmodified clause that resumes  *)
(* with the value: under the plain state handler and under the same handler *)
(* written with resume, for every sequence of gets and puts, the values     *)
(* invoke_command returned (printed by the body) are the same sequence, the *)
(* handler's state at the end of the body is the same, and handle returns   *)
(* the same final answer; a plain clause hands its value straight back: its *)
(* return puts the value in the invoker's variable on the same fiber, with  *)
(* the metastack as it was at the invocation.                               *)
PlainAsResume ==
  /\ [](input.scen \in {"state_plain", "state_resume"}
        => /\ IsPrefix(trace, RefReads(input.vec, InitialState)
                                 \o <<Line("", BodyResult)>>)
           /\ BodyAtEnd(P("state_body", 0))
                => /\ trace = RefReads(input.vec, InitialState)
                   /\ frames[Head(metastack)].state
                        = RefState(input.vec, InitialState)
           /\ Done => /\ Top(Here).acc = BodyResult
                       /\ Last(trace) = Line("", BodyResult))
  /\ [][ (AtOp(Here, "ret") /\ Caller(Here).k = "plain")
          => /\ status' = "run"
             /\ cur' = cur
             /\ metastack' = Caller(Here).stored \o metastack
             /\ Top(Here').k = "code"
             /\ Len(contexts'[cur]) = Len(contexts[cur]) - 2
             /\ OutVoid(Caller(Here).cmd) \/ Top(Here').acc = RetVal(Here)
        ]_vars

\* the body under the plain handler has done get, put(2), get and read the
\* initial state, then 2, and the handler holds 2
PlainBodyReadBack ==
  /\ input.scen = "state_plain"
  /\ input.vec = <<0, 2, 0>>
  /\ BodyAtEnd(P("state_body", 0))
  /\ trace = <<Line("", InitialState), Line("", 2)>>
  /\ frames[Head(metastack)].cls = "HStateful"
  /\ frames[Head(metastack)].state = 2

\* the frames held in the stored stack of some resumption buffer
StoredFrames(fr) ==
  UNION {SeqRange(fr[g].stored[c]) : g \in {h \in DOMAIN fr : fr[h].alive}, c \in Cmds}

\* what test() of handler-noresume prints
NoResumeOutput ==
  <<Line("[in]", 0), Line("[in]", 0), Line("[caught]", 0), Line("[out]", 0),
    Line("", CatchValue + 1)>>

\* what testError() of handler-noresume prints
CancelOutput ==
  <<Line("Welcome!", 0), Line("So far so good...", 0), Line("Error!", 0),
    Line("Bye!", 0)>>

----------------------------------------------------------------------------
\* the line the destructors of the handlers of handler-lifetime write
DeadLine == Line("The handler is dead!", 0)

IsEffect(x) == x # DeadLine

\* the output without the lines of handler destructors
Effects(q) == SelectSeq(q, IsEffect)

\* the handler class the scenario installs first
InstalledClass(in) == MainOf(in)[1].a

\* the scenarios whose handler has no_manage clauses, and the same programs
\* with unmodified clauses
NoManageScenarios ==
  {"generator_nm", "afterReturn_nm", "escapeThenResume_nm"}

ManagedScenarios == {"generator", "afterReturn", "escapeThenResume"}

\* a resume that is not in a command clause: Next of the Generator,
\* Resume(std::move(res)) in main
ResumesOutsideClause(in) ==
  \E i \in DOMAIN MainOf(in) : MainOf(in)[i].op \in {"resumeRes", "next"}

\* a clause of the installed handler uses the handler object after a resume
AccessesAfterResume(in) ==
  \E cmd \in Cls(InstalledClass(in)).cmds :
    LET code == Code(ClauseOf(InstalledClass(in), cmd), in)
    IN  \E i, j \in DOMAIN code :
          i < j /\ code[i].op \in {"resume", "tail"} /\ Touches(code[j])

\* what handler-lifetime expects of Handle<MyHandler>(afterReturn)
LifetimeOutput ==
  <<Line("Good morning!", 0), Line("I'm alive!", 0), Line("How are you?", 0),
    Line("I'm alive!", 0), Line("Cheers!", 0), Line("I'm alive!", 0),
    Line("I'm alive!", 0), DeadLine>>

\* what each program prints with the unmodified clause
ManagedOutput(in) ==
  CASE in.scen \in {"afterReturn", "afterReturn_nm"} -> LifetimeOutput
    [] in.scen \in {"escapeThenResume", "escapeThenResume_nm"} ->
         <<Line("I'm alive!", 0),
           Line(IF in.val = 1 THEN "I'm alive!" ELSE "Resumed!", 0), DeadLine>>
    [] OTHER -> <<>>

\* the values of the Generator seen by the loop: the k-th Value() is k - 1
\* and comes with a valid resumption; at the end SUM is 0 + ... + (n - 1)
GeneratorValues ==
  (input.scen \in {"generator", "generator_nm"} /\ status = "run" /\ cur = 1
   /\ Top(Here).k = "code")
  => /\ Instr(Here).op = "set"
          => /\ result # Null
             /\ result[1] = (Top(Here).pc \div 2) - 1
             /\ result[2] # Null
             /\ 2 * Top(Here).acc = result[1] * (result[1] - 1)
     /\ Done => /\ 2 * Top(Here).acc = Len(input.vec) * (Len(input.vec) - 1)
                /\ result = Null
                /\ \A f \in DOMAIN frames : f > 1 => ~frames[f].alive

\* the original statement of C14: under either condition the program with
\* no_manage clauses writes the very output of the program with unmodified
\* clauses, line for line
NoManageSameOutput ==
  (/\ input.scen \in NoManageScenarios \cup ManagedScenarios
   /\ ~ResumesOutsideClause(input) \/ ~AccessesAfterResume(input))
  => /\ status # "ub"
     /\ IsPrefix(Effects(trace), Effects(ManagedOutput(input)))
     /\ GeneratorValues
     /\ Done => trace = ManagedOutput(input)

(* C14 (amended): a handler whose clauses are declared no_manage<Cmd>       *)
(* delivers the same values to invokers, gives the same answers and runs    *)
(* the statements of bodies and clauses in the same order as the same       *)
(* handler with unmodified clauses, provided all resumes happen inside      *)
(* command clauses or no clause uses the handler object after a resume.     *)
(* The handler object itself may be destroyed earlier, while its clause is  *)
(* still running: the line its destructor writes is at the same place only  *)
(* when all resumes happen inside command clauses.  A clause never runs     *)
(* with its handler destroyed unless a resume was made outside a clause.    *)
NoManageSameUpToDestruction ==
  /\ (/\ input.scen \in NoManageScenarios \cup ManagedScenarios
      /\ ~ResumesOutsideClause(input) \/ ~AccessesAfterResume(input))
     => /\ status # "ub"
        /\ IsPrefix(Effects(trace), Effects(ManagedOutput(input)))
        /\ GeneratorValues
        /\ Done => /\ Effects(trace) = Effects(ManagedOutput(input))
                   /\ Len(trace) = Len(ManagedOutput(input))
                   /\ (~ResumesOutsideClause(input)
                       \/ input.scen \in ManagedScenarios)
                      => trace = ManagedOutput(input)
  /\ \A c \in DOMAIN contexts : \A i \in DOMAIN contexts[c] :
       (contexts[c][i].k = "clause" /\ ~frames[contexts[c][i].h].alive)
       => /\ contexts[c][i].keep = 0
          /\ ResumesOutsideClause(input)

\* the program whose no_manage clause resumes a body that was continued from
\* main ended: the handler was destroyed before the clause wrote its line
NoManageHandlerDiedInClause ==
  /\ input.scen = "escapeThenResume_nm"
  /\ input.val = 0
  /\ Done
  /\ trace = <<Line("I'm alive!", 0), DeadLine, Line("Resumed!", 0)>>

----------------------------------------------------------------------------
\* what test1 of cut-out-the-middleman prints
Middleman1Output ==
  <<Line("A+", 0), Line("B+", 0), Line("C+", 0), Line("Outer!", 0),
    Line("Inner!", 0), Line("Inner!", 0), Line("C-", 0), Line("A-", 0)>>

\* the frames a resumption holds
Captured(s, r) == SeqRange(s.fr[r[1]].stored[r[2]])

\* a frame that can get control again: it is on the metastack, in the
\* stored stack of a resumption, or in the list a running plain clause
\* splices back when it returns
Reachable(s, f) ==
  \/ f \in SeqRange(s.ms)
  \/ f \in StoredFrames(s.fr)
  \/ \E c \in DOMAIN s.ctx : \E i \in DOMAIN s.ctx[c] :
       s.ctx[c][i].k = "plain" /\ f \in SeqRange(s.ctx[c][i].stored)

\* the running code is about to destroy a valid resumption: a clause returns
\* with its resumption not resumed, or the Generator goes with its resumption
DestroysValid(s) ==
  \/ AtOp(s, "ret") /\ Caller(s).k = "clause" /\ Top(s).r # Null
  \/ AtOp(s, "drop") /\ s.result # Null /\ s.result[2] # Null

Doomed(s) == IF AtOp(s, "drop") THEN s.result[2] ELSE Top(s).r

\* the resumption objects that hold a pointer: the parameters of running
\* clauses, the Generator's result, the trampoline slot
HeldResumptions ==
  UNION {{contexts[c][i].r :
            i \in {j \in DOMAIN contexts[c] : /\ contexts[c][j].k = "code"
                                               /\ contexts[c][j].r # Null}} :
         c \in DOMAIN contexts}
  \cup (IF result # Null /\ result[2] # Null THEN {result[2]} ELSE {})
  \cup (IF tail_resumption # Null THEN {tail_resumption} ELSE {})

----------------------------------------------------------------------------
\* what handler-lifetime expects of resumptionEscape
EscapeOutput ==
  <<Line("To be", 0), Line("Must give us pause!", 0), Line("[A short break]", 0),
    Line("Or not to be", 0), Line("Thanks!", 0), DeadLine>>

\* a clause of handler f declared with the unmodified command, or plain, is
\* executing
ClauseRunning(f) ==
  \E c \in DOMAIN contexts : \E i \in DOMAIN contexts[c] :
    /\ contexts[c][i].k \in {"clause", "plain"}
    /\ contexts[c][i].h = f
    /\ Cls(frames[f].cls).kind \in {"std", "plain"}

\* the handle_with that installed f has not returned, or the body of f
\* returned and its return clause is running
InstallationActive(f) ==
  \E c \in DOMAIN contexts : \E i \in DOMAIN contexts[c] :
    \/ contexts[c][i].k = "handle_with" /\ contexts[c][i].h = f
    \/ contexts[c][i].k = "bodyFiber" /\ contexts[c][i].returnFrame = f

\* client code has a pointer to the handler f it made itself
ClientHolds(f) ==
  \E c \in DOMAIN contexts : \E i \in DOMAIN contexts[c] :
    contexts[c][i].k = "code" /\ HanOf(contexts[c][i]) = f

----------------------------------------------------------------------------
\* what cut-out-the-middleman expects of test2
Middleman2Output == <<Line("", 2), Line("", 1), Line("", 101)>>

\* the resumption in Res is resumed by main after the handle that installed
\* its handler returned
EscapedResume ==
  /\ AtOp(Here, "resumeRes")
  /\ cur = 1
  /\ ~InstallationActive(Res[1])
  /\ \A i \in DOMAIN metastack : metastack[i] # Res[1]

(* C17: a resumption that escaped its clause is resumed after the handle    *)
(* that installed the handler returned: the captured frames, the handler's  *)
(* among them, go back onto the metastack in front of the caller's, the     *)
(* body goes on where it stopped, and the caller of resume waits for the    *)
(* answer; a command the body invokes from then on is handled by a clause   *)
(* of that same handler, its return runs the return clause of that handler, *)
(* and the answer comes out of resume: test2 writes 2, 1, 101 and           *)
(* resumptionEscape the lines handler-lifetime expects.                     *)
EscapedResumptionResumes ==
  [][/\ EscapedResume
       => LET st == frames[Res[1]].stored[Res[2]]
          IN  /\ status' = "run"
              /\ st # <<>>
              /\ Last(st) = Res[1]
              /\ metastack' = st \o metastack
              /\ cur' = frames[Head(st)].fiber
              /\ Top(Here').k = "invoke_command"
              /\ Top(Here').rd = Res
              /\ frames'[Head(metastack)].fiber = cur
              /\ SubSeq(contexts'[cur], 1, Len(contexts[cur])) = contexts[cur]
              /\ Len(contexts'[cur]) = Len(contexts[cur]) + 1
              /\ Last(contexts'[cur]).k = "resume"
              /\ Last(contexts'[cur]).rd = Res
              /\ frames'[Res[1]].alive
              /\ frames'[Res[1]].stored[Res[2]] = <<>>
              /\ Len(frames') = Len(frames)
     /\ input.scen \in {"middleman2", "resumptionEscape"}
        => /\ Len(frames') <= 2
           /\ \A c \in DOMAIN contexts' : \A i \in DOMAIN contexts'[c] :
                /\ contexts'[c][i].k = "clause" => contexts'[c][i].h = 2
                /\ contexts'[c][i].k = "bodyFiber" /\ contexts'[c][i].returnFrame # 0
                   => contexts'[c][i].returnFrame = 2
           /\ LET out == IF input.scen = "middleman2" THEN Middleman2Output
                         ELSE EscapeOutput
              IN  /\ IsPrefix(trace', out)
                  /\ Done' => trace' = out
    ]_vars

\* test2 is over: the second resume of Res gave main 101, the body's 100
\* through the return clause and the clause of Inc
SecondResumeGave101 ==
  /\ input.scen = "middleman2"
  /\ Done
  /\ trace = Middleman2Output
  /\ metastack = <<1>>
  /\ ~frames[2].alive

----------------------------------------------------------------------------
\* a resumption is made of the pointer rd, which no resumption holds, and
\* resumed: Resume of Res in main, Next of the StaticGenerator's Generator,
\* Resume of c.res in the clause of CmdAid
RecreatedResume(rd) ==
  \/ AtOp(Here, "resumeRes") /\ Res = rd
  \/ AtOp(Here, "renew") /\ Top(Here).acc # Null /\ Top(Here).acc[2] = rd
  \/ AtOp(Here, "resumeOf") /\ RetVal(Here) = rd

(* C18: release() on a valid resumption changes no frame, stored stack or   *)
(* metastack: the object is left without data and the caller has the        *)
(* pointer; when a clause returns, the destruction of a resumption without  *)
(* data changes no stored stack, frame or fiber of a captured continuation; *)
(* a stored stack whose pointer no resumption holds stays as it is, with    *)
(* its frames alive and its continuation untouched, until a resumption made *)
(* of the pointer is resumed, and then the stack goes back onto the         *)
(* metastack as it was captured and the body goes on at the invoke_command  *)
(* that captured it.                                                        *)
ReleaseKeepsContinuation ==
  [][/\ (AtOp(Here, "escape") /\ Top(Here).r # Null)
        => /\ status' = "run"
           /\ Top(Here').r = Null
           /\ frames' = frames
           /\ metastack' = metastack
           /\ Captured(Here', Top(Here).r) # {}
           /\ Top(Here).r \notin HeldResumptions'
           /\ IF Instr(Here).a = 1 THEN Top(Here').acc = Top(Here).r
              ELSE Res' = Top(Here).r
     /\ (AtOp(Here, "ret") /\ Caller(Here).k = "clause" /\ Top(Here).r = Null)
        => \A f \in DOMAIN frames : \A cmd \in Cmds :
             frames[f].stored[cmd] # <<>>
             => /\ frames'[f].stored[cmd] = frames[f].stored[cmd]
                /\ \A g \in SeqRange(frames[f].stored[cmd]) :
                     /\ frames'[g].alive
                     /\ frames'[g].fiber = frames[g].fiber
     /\ \A f \in DOMAIN frames : \A cmd \in Cmds :
          LET st == frames[f].stored[cmd]
          IN  (st # <<>> /\ <<f, cmd>> \notin HeldResumptions)
              => \/ /\ frames'[f].stored[cmd] = st
                    /\ \A g \in SeqRange(st) :
                         /\ frames'[g].alive
                         /\ frames'[g].fiber = frames[g].fiber
                    /\ contexts'[frames[Head(st)].fiber]
                         = contexts[frames[Head(st)].fiber]
                 \/ /\ RecreatedResume(<<f, cmd>>)
                    /\ status' = "run"
                    /\ metastack' = st \o metastack
                    /\ frames'[f].stored[cmd] = <<>>
                    /\ cur' = frames[Head(st)].fiber
                    /\ contexts'[cur'] = contexts[cur']
                    /\ Top(Here').k = "invoke_command"
                    /\ Top(Here').rd = <<f, cmd>>
    ]_vars

\* the Generator of StaticGenerator holds the second value: the clause of
\* Yield returned the released pointer in a GenState, Next made a resumption
\* of it, and the body went on from its first yield to the second
StaticNextGaveOne ==
  /\ input.scen = "staticGenerator"
  /\ status = "run"
  /\ cur = 1
  /\ AtOp(Here, "value")
  /\ Top(Here).acc # Null
  /\ Top(Here).acc[1] = 1
  /\ Captured(Here, Top(Here).acc[2]) # {}
  /\ Top(Here).acc[2] \notin HeldResumptions

----------------------------------------------------------------------------
\* what swap-handler prints when the first Reader holds v
SwapOutput(v) ==
  <<Line("", v), Line("", v + 10), Line("", 310), Line("", 310), Line("", 320),
    Line("", 18)>>

\* the Readers made so far, and those on the metastack
Readers == {f \in DOMAIN frames : frames[f].cls = "ReaderInt"}

InstalledReaders == {f \in Readers : f \in SeqRange(metastack)}

(* C19: in swap-handler, when the clause of CmdAid resumes the resumption    *)
(* that the clause of CmdAbet released, under the Aid and the Reader it has *)
(* just installed with handle_with, the captured frames (Abet's) go on top  *)
(* of that Reader, which is the one the command carried and not the one     *)
(* that was installed when the resumption was captured (that one is off the *)
(* metastack, in the stored stack of the clause's own resumption), and comp *)
(* goes on after its put; whenever comp reads, the one Reader on the        *)
(* metastack is the one made last, its clause serves the command and gives  *)
(* the value put last; the output is 100, 110, 310, 310, 320 and the answer *)
(* 18.                                                                      *)
SwappedHandlerServes ==
  [][input.scen = "swap"
     => /\ (AtOp(Here, "resumeOf") /\ status' = "run")
           => LET new == Top(Here).cmdv[1]
                  rd == Top(Here).cmdv[2]
                  st == frames[rd[1]].stored[rd[2]]
              IN  /\ Head(metastack) = new
                  /\ frames[new].cls = "ReaderInt"
                  /\ frames[Head(Tail(metastack))].cls = "Aid"
                  /\ st # <<>>
                  /\ \A i \in DOMAIN st : frames[st[i]].cls = "Abet"
                  /\ metastack' = st \o metastack
                  /\ InstalledReaders' = {new}
                  /\ \E old \in Readers \ {new} :
                       /\ old \in StoredFrames(frames')
                       /\ frames[old].state # frames[new].state
                  /\ Top(Here').k = "invoke_command"
                  /\ Top(Here').rd = rd
                  /\ contexts'[cur'][Len(contexts'[cur']) - 1].p = P("swap_comp", 0)
        /\ (status = "run" /\ Top(Here).k = "code" /\ Top(Here).p = P("swap_comp", 0)
            /\ Instr(Here).op = "inv" /\ Instr(Here).a = "Read" /\ status' = "run")
           => /\ InstalledReaders = {CHOOSE f \in Readers : \A g \in Readers : g <= f}
              /\ Top(Here').p = P("ReaderInt_Read", 0)
              /\ Top(Here').self \in InstalledReaders
        /\ IsPrefix(trace', SwapOutput(input.val))
        /\ Done' => trace' = SwapOutput(input.val)
    ]_vars

\* swap-handler is over with the output of the test
SwapHandlerDone ==
  /\ input.scen = "swap"
  /\ input.val = 100
  /\ Done
  /\ trace = <<Line("", 100), Line("", 110), Line("", 310), Line("", 310),
               Line("", 320), Line("", 18)>>
  /\ Cardinality(Readers) = 6
  /\ \A f \in Readers : ~frames[f].alive

----------------------------------------------------------------------------
\* what command-lifetime prints when rand() % 1000 gives x, then y
CommandLifetimeOutput(x, y) ==
  <<Line("In computation: Creating a command...", 0),
    Line("born", x),
    [s |-> "born (copied from", n |-> y, from |-> x],
    Line("In handler: received command id = ", y),
    Line("dead", x),
    Line("In computation: The command is gone...", 0),
    Line("In handler: still using command id = ", y),
    Line("dead", y)>>

\* the activations of the clause of Cmd, as <<context, position>>
LifetimeClauses ==
  UNION {{<<c, i>> : i \in {j \in DOMAIN contexts[c] :
                              /\ contexts[c][j].k = "code"
                              /\ contexts[c][j].p = P("LifetimeHandler_LifetimeCmd", 0)}} :
         c \in DOMAIN contexts}

\* the Cmd object that the invoker constructed is the first one
Original == 1

(* C20: in command-lifetime, the command a clause has is an object of its    *)
(* own, a copy of the invoker's that the call of the clause made: as long   *)
(* as the clause's activation exists that object is alive and is not the    *)
(* invoker's; when the clause goes on after resume() has returned, the      *)
(* invoker's object is destroyed already and the clause's is not, and the   *)
(* clause reads its id; the clause's object is destroyed by the step in     *)
(* which the clause returns and by no other; no step of the program uses a  *)
(* destroyed command, and the output is that of the test.                   *)
ClauseOwnsItsCommand ==
  [][input.scen = "commandLifetime"
     => /\ status' = "run"
        /\ \A a \in LifetimeClauses' :
             LET o == contexts'[a[1]][a[2]].cmdv
             IN  /\ o \in DOMAIN objects'
                 /\ o # Original
                 /\ objects'[o].alive
                 /\ objects'[o].from = Original
                 /\ contexts'[a[1]][a[2]].pc >= 3
                      => /\ ~objects'[Original].alive
                         /\ \E i \in DOMAIN trace' : trace'[i] = Line("dead", RandId(Original))
        /\ \A o \in DOMAIN objects \ {Original} :
             (objects[o].alive /\ ~objects'[o].alive)
               => /\ AtOp(Here, "ret")
                  /\ Top(Here).p = P("LifetimeHandler_LifetimeCmd", 0)
                  /\ Top(Here).cmdv = o
                  /\ LifetimeClauses' = {}
                  /\ Last(trace) = Line("In handler: still using command id = ",
                                        objects[o].id)
        /\ (AtOp(Here, "ret") /\ Top(Here).p = P("LifetimeHandler_LifetimeCmd", 0))
             => /\ ~objects'[Top(Here).cmdv].alive
                /\ Last(trace') = Line("dead", objects[Top(Here).cmdv].id)
        /\ Len(objects') <= 2
        /\ IsPrefix(trace', CommandLifetimeOutput(input.vec[1], input.vec[2]))
        /\ Done' => /\ trace' = CommandLifetimeOutput(input.vec[1], input.vec[2])
                    /\ \A o \in DOMAIN objects' : ~objects'[o].alive
    ]_vars

\* the clause is about to use its command after resume() returned, and the
\* invoker's command is gone
ClauseUsesCopyAfterOriginalDied ==
  /\ input.scen = "commandLifetime"
  /\ input.vec = <<807, 249>>
  /\ status = "run"
  /\ Top(Here).k = "code"
  /\ Top(Here).p = P("LifetimeHandler_LifetimeCmd", 0)
  /\ Top(Here).pc = 3
  /\ Len(objects) = 2
  /\ ~objects[1].alive
  /\ objects[2].alive
  /\ Top(Here).cmdv = 2
  /\ Last(trace) = Line("In computation: The command is gone...", 0)

----------------------------------------------------------------------------
\* an invoke_command by type or by label that finds no clause to call
NoClauseFor(s) ==
  /\ AtOp(s, "inv")
  /\ Instr(s).d = 0
  /\ \A kind \in {"std", "plain", "no_resume", "no_manage"} : ~Serves(s, Instr(s), kind)

\* the frame with the requested label exists (and does not declare the
\* command), or the dispatch is by type
FrameSelected(s) ==
  Instr(s).b = Null \/ FindByLabel(s, Instr(s).b[1]) # 0

\* the line of the output at position i names the command cmd
NamesCommand(line, cmd) == "cmd" \in DOMAIN line /\ line.cmd = cmd

(* C21: when invoke_command finds no handler for the command (by type: no   *)
(* frame of the metastack declares it; by label: the frame with the label   *)
(* does not declare it), the step writes a line that names the command (and *)
(* the label, when there is one), then the dump of the metastack, and ends  *)
(* the process; no clause is called and nothing else changes.               *)
UnhandledCommandDiagnosed ==
  [][(NoClauseFor(Here) /\ FrameSelected(Here))
     => /\ status' = "exit"
        /\ Len(trace') = Len(trace) + 2
        /\ SubSeq(trace', 1, Len(trace)) = trace
        /\ NamesCommand(trace'[Len(trace) + 1], Instr(Here).a)
        /\ Instr(Here).b # Null => trace'[Len(trace) + 1].n = Instr(Here).b[1]
        /\ Last(trace') = Line("debug_print_metastack", Len(metastack))
        /\ contexts' = contexts
        /\ metastack' = metastack
        /\ frames' = frames
    ]_vars

\* the same without the line, which is what every such step does
UnhandledCommandExits ==
  [][(NoClauseFor(Here) /\ FrameSelected(Here))
     => /\ status' = "exit"
        /\ Last(trace') = Line("debug_print_metastack", Len(metastack))
        /\ Instr(Here).b # Null
             => trace' = trace \o <<ErrorLine(Instr(Here).b[1], Instr(Here).a),
                                    Line("debug_print_metastack", Len(metastack))>>
        /\ Instr(Here).b = Null
             => trace' = Append(trace, Line("debug_print_metastack", Len(metastack)))
        /\ contexts' = contexts
        /\ metastack' = metastack
        /\ frames' = frames
    ]_vars

\* a dispatch by label found a frame that does not declare the command
LabelledFrameRefused ==
  /\ input.scen = "unhandledIn"
  /\ input.vec = <<1>>
  /\ status = "exit"
  /\ trace = <<ErrorLine(1, "Print"), Line("debug_print_metastack", 2)>>

----------------------------------------------------------------------------
\* an invoke_command(label, cmd) when no frame of the metastack has the label
LabelMissing(s) ==
  /\ AtOp(s, "inv")
  /\ Instr(s).d = 0
  /\ Instr(s).b # Null
  /\ FindByLabel(s, Instr(s).b[1]) = 0

(* C22: invoke_command(label, cmd) with a label that no frame of the         *)
(* metastack carries writes the error line and the dump and ends the        *)
(* process, and uses nothing that is not a frame of the metastack: the step *)
(* ends with exit, the output grown by the line with the label and the      *)
(* command and by the dump, and nothing else changed.                       *)
MissingLabelFailsFatally ==
  [][LabelMissing(Here)
     => /\ status' = "exit"
        /\ trace' = trace \o <<ErrorLine(Instr(Here).b[1], Instr(Here).a),
                               Line("debug_print_metastack", Len(metastack))>>
        /\ contexts' = contexts
        /\ metastack' = metastack
        /\ frames' = frames
    ]_vars

\* what the step does: *it of metastack.end() is used as a frame
MissingLabelUndefined ==
  [][LabelMissing(Here)
     => /\ status' = "ub"
        /\ trace' = trace
    ]_vars

\* the body of a handler asked for a label that is not there
MissingLabelReached ==
  /\ input.scen = "unhandledIn"
  /\ input.vec = <<2>>
  /\ status = "ub"
  /\ Len(metastack) = 2
  /\ LabelMissing([Here EXCEPT !.status = "run"])

----------------------------------------------------------------------------
\* the invoke_command that a static_invoke_command stands for: by type, or
\* by the same label
DynamicOf(ins) ==
  IF ins.d = 3 THEN [ins EXCEPT !.b = Null, !.d = 0]
  ELSE [ins EXCEPT !.b = <<ins.b[2]>>, !.d = 0]

\* the call of the clause of the frame at position i, whatever its kind
DispatchOp(s, i, cmd, payload) ==
  LET kind == KindOf(s.fr[s.ms[i]].cls, cmd)
  IN  CASE kind = "std" -> ClauseInvokeOp(s, i, cmd, payload)
        [] kind = "plain" -> PlainInvokeOp(s, i, cmd, payload)
        [] kind = "no_resume" -> NoResumeInvokeOp(s, i, cmd, payload)
        [] kind = "no_manage" -> NoManageInvokeOp(s, i, cmd, payload)

\* the program is at a static_invoke_command<H> and invoke_command would
\* reach a handler of class H
DynamicReachesH(s) ==
  /\ AtOp(s, "inv")
  /\ Instr(s).d \in {3, 4}
  /\ Target(s, DynamicOf(Instr(s))) # 0
  /\ s.fr[s.ms[Target(s, DynamicOf(Instr(s)))]].cls = Instr(s).b[1]
  /\ Declares(Instr(s).b[1], Instr(s).a)

StaticTypeReachedFront ==
  /\ input.scen = "static"
  /\ input.vec[1] = 1
  /\ input.vec[3] = 1
  /\ input.val = 1
  /\ Done
  /\ trace = <<Line("sum++", 0)>>

----------------------------------------------------------------------------
\* client code is about to call invoke_command(it, cmd) or
\* static_invoke_command<H>(it, cmd)
AtInvokeRef(s) == AtOp(s, "inv") /\ Instr(s).d = 1

(* C24: find_handler calls no clause and changes nothing but the local that *)
(* receives the reference, which designates the frame the search found      *)
(* (the first with the label, or the first that declares the command); an   *)
(* invoke_command through a reference whose handler is installed calls the  *)
(* clause of that very handler, with the frames from the front of the       *)
(* metastack down to it captured, whatever handlers with the same label or  *)
(* for the same command were installed inside it since; in the program ref  *)
(* the value read is always that of the handler the reference was taken of. *)
RefDesignatesInstallation ==
  [][/\ AtOp(Here, "find")
        => LET i == IF Instr(Here).d = 1 THEN FindByType(Here, Instr(Here).b)
                    ELSE FindByLabel(Here, RetVal(Here))
           IN  /\ metastack' = metastack
               /\ frames' = frames
               /\ trace' = trace
               /\ cur' = cur
               /\ Len(contexts') = Len(contexts)
               /\ \A c \in DOMAIN contexts : c # cur => contexts'[c] = contexts[c]
               /\ Len(contexts'[cur]) = Len(contexts[cur])
               /\ i # 0 => /\ status' = "run"
                           /\ Top(Here') = [Top(Here) EXCEPT !.acc = metastack[i],
                                                             !.pc = @ + 1]
               /\ i = 0 => status' = "exit"
     /\ (AtInvokeRef(Here) /\ FindRef(Here, Top(Here).acc) # 0)
        => LET f == Top(Here).acc
               i == FindRef(Here, f)
           IN  /\ status' = "run"
               /\ Top(Here').k = "code"
               /\ Top(Here').p = ClauseOf(frames[f].cls, Instr(Here).a)
               /\ Top(Here').self = f
               /\ metastack' = SubSeq(metastack, i + 1, Len(metastack))
               /\ SubSeq(frames'[f].stored[Instr(Here).a], 1, i) = SubSeq(metastack, 1, i)
     /\ input.scen = "ref"
        => /\ IsPrefix(trace', <<Line("", 7)>>)
           /\ Done' => trace' = <<Line("", 7)>>
    ]_vars

\* the clause of the Reader the reference was taken of runs, though a second
\* Reader with the same label was installed inside it
RefReachedShadowed ==
  /\ input.scen = "ref"
  /\ input.vec = <<1>>
  /\ status = "run"
  /\ Top(Here).k = "code"
  /\ Top(Here).p = P("Reader_Read", 0)
  /\ frames[Top(Here).self].state = 7
  /\ frames[Top(Here).self].stored["Read"] = <<3, 2>>
  /\ frames[3].label = frames[2].label
  /\ frames[3].cls = frames[2].cls

-----------------------------------------------------------------------------
\* the activations of the piece of code p, as <<context, position>>
ActivationsOf(p) ==
  UNION {{<<c, i>> : i \in {j \in DOMAIN contexts[c] :
                              /\ contexts[c][j].k = "code"
                              /\ contexts[c][j].p = p}} :
         c \in DOMAIN contexts}

\* the code that constructs and resumes the resumption is running, at n
FunctionClientAt(s, n) ==
  /\ s.status = "run"
  /\ Top(s).k = "code"
  /\ Top(s).p = P("function_client", 0)
  /\ Top(s).pc = n

\* the function has been entered: control in the lambda of the constructor
\* is past invoke_command(Arg)
FunctionEntered ==
  \E a \in ActivationsOf(P("ctor_inner", 0)) : contexts[a[1]][a[2]].pc > 1

\* what the program function writes
FunctionOutput ==
  IF input.vec[1] = 2
  THEN <<Line("constructed", 0), Line("", 100)>>
  ELSE <<Line("constructed", 0), Line("", input.val), Line("", input.val + 1)>>

(* C25: a resumption constructed from a function does not run the function  *)
(* while it is constructed and leaves the metastack as it found it: when    *)
(* the constructor returns, the metastack is that of its caller, nothing    *)
(* was written, and the resumption holds the frame of HArg with its fiber   *)
(* stopped at invoke_command(Arg); resume puts that frame in front of the   *)
(* metastack and runs the function, once, with the value resume got, and    *)
(* what the function returns comes out of resume: the program function      *)
(* writes constructed, x, x + 1 (or constructed, 100 through wrap).          *)
FunctionResumption ==
  [][input.scen = "function" =>
       /\ \* construction
          (\E a \in ActivationsOf(P("function_client", 0))' :
             contexts'[a[1]][a[2]].pc = 1 /\ status' = "run")
            => /\ ~FunctionEntered'
               /\ trace' = <<>>
       /\ \A n \in {1, 2, 3, 4} :
            FunctionClientAt(Here', n)
              => /\ metastack' = <<contexts'[cur'][1].h, 1>>
                 /\ frames'[metastack'[1]].cls = "Reader"
                 /\ frames'[metastack'[1]].state = 7
                 /\ \A c \in Cmds : frames'[metastack'[1]].stored[c] = <<>>
       /\ FunctionClientAt(Here', 2)
            => /\ ~FunctionEntered'
               /\ trace' = <<>>
               /\ Res' # Null
               /\ frames'[Res'[1]].cls \in {"HArg", "HArg0"}
               /\ frames'[Res'[1]].alive
               /\ frames'[Res'[1]].stored[Res'[2]] = <<Res'[1]>>
               /\ frames'[Res'[1]].fiber # 0
               /\ Last(contexts'[frames'[Res'[1]].fiber]).k = "invoke_command"
               /\ \A f \in DOMAIN frames' : frames'[f].cls = "HAbort" => ~frames'[f].alive
       /\ \* resume
          (FunctionClientAt(Here, 3) /\ status' = "run")
            => /\ metastack' = <<Res[1]>> \o metastack
               /\ cur' = frames[Res[1]].fiber
               /\ trace' = trace
       /\ \A a \in ActivationsOf(P("ctor_inner", 0))' :
            (input.vec[1] = 1 /\ contexts'[a[1]][a[2]].pc = 2)
              => contexts'[a[1]][a[2]].acc = input.val
       /\ Cardinality({f \in DOMAIN frames' : frames'[f].cls \in {"HArg", "HArg0"}}) <= 1
       /\ Cardinality({f \in DOMAIN frames' : frames'[f].cls = "HH"}) <= 1
       /\ \* the result
          FunctionClientAt(Here', 4)
            => Top(Here').acc = IF input.vec[1] = 2 THEN 100 ELSE input.val + 1
       /\ status' = "run" => IsPrefix(trace', FunctionOutput)
       /\ Done' => trace' = FunctionOutput
    ]_vars

\* the program function is over: resumption<int(int)>(f) was resumed with 5
FunctionResumedOnce ==
  /\ input.scen = "function"
  /\ input.vec = <<1>>
  /\ input.val = 5
  /\ Done
  /\ trace = <<Line("constructed", 0), Line("", 5), Line("", 6)>>
  /\ Res # Null
  /\ ~frames[Res[1]].alive

-----------------------------------------------------------------------------
\* an invoke_command(0, cmd)
AtLabelZero(s) ==
  /\ AtOp(s, "inv")
  /\ Instr(s).d = 0
  /\ Instr(s).b = <<0>>

(* C26: an invoke_command with the label 0 never calls a command clause:    *)
(* the frame it selects is the bottom frame of the metastack, which is not  *)
(* a handler, so the step starts no clause and ends the process.            *)
LabelZeroReachesNoClause ==
  [][AtLabelZero(Here)
     => /\ FindByLabel(Here, 0) = Len(metastack)
        /\ frames[metastack[FindByLabel(Here, 0)]].cls = "metaframe"
        /\ status' = "exit"
        /\ contexts' = contexts
    ]_vars

\* what holds: label 0 selects the bottom frame when no handler was
\* installed with the label 0, and then no clause is called
LabelZeroOfBottomOnly ==
  [][(AtLabelZero(Here) /\ \A i \in 1..(Len(metastack) - 1) : frames[metastack[i]].label # 0)
     => /\ FindByLabel(Here, 0) = Len(metastack)
        /\ frames[metastack[FindByLabel(Here, 0)]].cls = "metaframe"
        /\ status' = "exit"
        /\ contexts' = contexts
    ]_vars

\* the clause of a handler installed with the label 0 answers a command
\* invoked with the label 0
LabelZeroServed ==
  /\ input.scen = "labelZero"
  /\ input.vec = <<0>>
  /\ Done
  /\ trace = <<Line("", 7)>>

-----------------------------------------------------------------------------
\* the steps fib(n) takes: the calls of fib
RECURSIVE FibSteps(_)
FibSteps(n) == IF n < 2 THEN 1 ELSE 1 + FibSteps(n - 1) + FibSteps(n - 2)

\* the handlers of Consume ever installed
BoundedExecutions == {f \in DOMAIN frames : frames[f].cls = "BoundedExecution"}

\* the invocations of Consume the body has got through
Consumed ==
  IF \E a \in ActivationsOf(P("fib_body", input.vec[1])) : TRUE
  THEN LET a == CHOOSE a \in ActivationsOf(P("fib_body", input.vec[1])) : TRUE
       IN  contexts[a[1]][a[2]].pc - 1
  ELSE 0

\* what tryFib writes
FuelOutput ==
  <<Line("fib(n) = ", 0),
    IF FibSteps(input.vec[1]) <= input.val
    THEN Line("", fib(input.vec[1]))
    ELSE Line("...took too long to complete", 0)>>

(* C27: under BoundedExecution with a budget of fuel, fib(n), which consumes *)
(* one unit at every call, completes and its value is reported if and only  *)
(* if the calls it takes are at most the budget; otherwise handle gives the *)
(* empty optional and the body is abandoned at the Consume the fuel did not *)
(* cover.  The fuel left is the budget less the units consumed and is never *)
(* negative.                                                                *)
FuelBoundsExecution ==
  input.scen = "fuel" =>
    /\ status = "run"
    /\ Cardinality(BoundedExecutions) <= 1
    /\ \A f \in BoundedExecutions :
         frames[f].alive =>
           /\ frames[f].state >= 0
           /\ frames[f].state <= input.val
           /\ ActivationsOf(P("fib_body", input.vec[1])) # {}
                => Consumed \in {input.val - frames[f].state,
                                 input.val - frames[f].state - 1}
    /\ Consumed <= input.val
    /\ \A c \in DOMAIN contexts : \A i \in DOMAIN contexts[c] :
         (contexts[c][i].k = "code" /\ contexts[c][i].p = P("BoundedExecution_return", 0))
           => FibSteps(input.vec[1]) <= input.val
    /\ (Top(Here).k = "code" /\ Top(Here).p = P("main", 0) /\ Top(Here).pc > 2)
         => /\ Top(Here).acc =
                 IF FibSteps(input.vec[1]) <= input.val
                 THEN <<fib(input.vec[1])>> ELSE Null
            /\ \A f \in BoundedExecutions : ~frames[f].alive
            /\ metastack = <<1>>
    /\ IsPrefix(trace, FuelOutput)
    /\ Done => trace = FuelOutput

\* fib(MaxDepth) completed with exactly the fuel it takes
FuelJustEnough ==
  /\ input.scen = "fuel"
  /\ input.vec = <<MaxDepth>>
  /\ input.val = FibSteps(MaxDepth)
  /\ Done
  /\ trace = <<Line("fib(n) = ", 0), Line("", fib(MaxDepth))>>

\* fib(2) with one unit less than it takes gave the empty result
FuelOneShort ==
  /\ input.scen = "fuel"
  /\ input.vec = <<2>>
  /\ input.val = FibSteps(2) - 1
  /\ Done
  /\ trace = <<Line("fib(n) = ", 0), Line("...took too long to complete", 0)>>

-----------------------------------------------------------------------------
\* an invoke_command that calls a clause of kind kind
Dispatched(s, kind) == AtOp(s, "inv") /\ Serves(s, Instr(s), kind)

\* the frame f is on the metastack ms
OnMetastack(ms, f) == \E i \in DOMAIN ms : ms[i] = f

\* the activations that hold a resumption, as <<context, position>>
ResumptionHolders ==
  UNION {{<<c, i>> : i \in {j \in DOMAIN contexts[c] :
                              /\ contexts[c][j].k = "code"
                              /\ contexts[c][j].r # Null}} :
         c \in DOMAIN contexts}

(* C28 as claimed: the frames that go into the resumption are those in      *)
(* front of the handler's, and the handler's frame and all behind it stay   *)
(* on the metastack.                                                        *)
DetachesStrictlyAbove ==
  [][(Dispatched(Here, "std") /\ status' = "run")
     => LET i == Target(Here, Instr(Here))
            f == metastack[i]
            cmd == Instr(Here).a
        IN  /\ frames'[f].stored[cmd] = SubSeq(metastack, 1, i - 1) \o frames[f].stored[cmd]
            /\ metastack' = SubSeq(metastack, i, Len(metastack))
            /\ OnMetastack(metastack', f)
    ]_vars

(* C28: when a command is dispatched to a handler, the frames detached are  *)
(* those from the front of the metastack down to and including the frame of *)
(* the handler; the frames behind the handler's stay on the metastack and   *)
(* the clause runs with the frame just behind the handler's at the front.   *)
(* With a resumption (standard and no_manage clauses) the detached frames   *)
(* go in front of the handler's resumption buffer; a plain clause keeps     *)
(* them in a local list; a no_resume clause erases them.  As long as a      *)
(* clause holds its resumption, the handler's frame is the last of the      *)
(* stored frames and is not on the metastack.                               *)
DetachesThroughHandler ==
  [][/\ \A kind \in {"std", "no_manage", "plain", "no_resume"} :
          (Dispatched(Here, kind) /\ status' = "run")
          => LET i == Target(Here, Instr(Here))
                 f == metastack[i]
                 cmd == Instr(Here).a
             IN  /\ i < Len(metastack)
                 /\ metastack' = SubSeq(metastack, i + 1, Len(metastack))
                 /\ ~OnMetastack(metastack', f)
                 /\ \A j \in 1..i : ~OnMetastack(metastack', metastack[j])
                 /\ Top(Here').k = "code"
                 /\ Top(Here').self = f
                 /\ Top(Here').p = ClauseOf(frames[f].cls, cmd)
                 /\ kind \in {"std", "no_manage"}
                      => /\ frames'[f].stored[cmd] =
                              SubSeq(metastack, 1, i) \o frames[f].stored[cmd]
                         /\ Top(Here').r = <<f, cmd>>
                 /\ kind = "plain"
                      => /\ Caller(Here').k = "plain"
                         /\ Caller(Here').stored = SubSeq(metastack, 1, i)
                         /\ \A g \in DOMAIN frames : frames'[g].stored = frames[g].stored
                 /\ kind = "no_resume"
                      => \A g \in DOMAIN frames :
                           frames'[g].alive => frames'[g].stored = frames[g].stored
     /\ \A a \in ResumptionHolders' :
          LET rd == contexts'[a[1]][a[2]].r
              st == frames'[rd[1]].stored[rd[2]]
          IN  (frames'[rd[1]].alive /\ st # <<>>)
                => /\ Last(st) = rd[1]
                   /\ \A j \in DOMAIN st : ~OnMetastack(metastack', st[j])
    ]_vars

\* a clause runs with its handler's frame and one frame in front of it in
\* its resumption, and a frame of another handler at the front of the
\* metastack
HandlerFrameDetached ==
  /\ status = "run"
  /\ Top(Here).k = "code"
  /\ Top(Here).r # Null
  /\ Top(Here).self = Top(Here).r[1]
  /\ Len(frames[Top(Here).self].stored[Top(Here).r[2]]) = 2
  /\ Last(frames[Top(Here).self].stored[Top(Here).r[2]]) = Top(Here).self
  /\ ~OnMetastack(metastack, Top(Here).self)
  /\ Len(metastack) >= 2

-----------------------------------------------------------------------------
\* client code (a body, a clause or a return clause) is running
ClientRuns == status = "run" /\ Top(Here).k = "code"

\* the frames held in a resumption: the stored stacks of the resumption
\* buffers of the handlers that exist
InResumption ==
  UNION {UNION {{frames[g].stored[c][j] : j \in DOMAIN frames[g].stored[c]} :
                c \in Cmds} :
         g \in {h \in DOMAIN frames : frames[h].alive}}

\* the frames a plain clause that is running has set aside
SetAside ==
  UNION {UNION {{contexts[c][i].stored[j] : j \in DOMAIN contexts[c][i].stored} :
                i \in {k \in DOMAIN contexts[c] : contexts[c][k].k = "plain"}} :
         c \in DOMAIN contexts}

(* C29: whenever client code runs, the front frame of the metastack has no  *)
(* suspended fiber and is the only such frame among the frames of the       *)
(* metastack and of the resumptions: every frame behind the front one,      *)
(* every frame stored in a resumption and every frame a plain clause set    *)
(* aside holds a fiber, which is a suspended context other than the running *)
(* one, and no two of these frames hold the same fiber.                     *)
OneFrameWithoutFiber ==
  ClientRuns =>
    /\ metastack # <<>>
    /\ frames[Head(metastack)].fiber = 0
    /\ \A i \in 2..Len(metastack) : frames[metastack[i]].fiber # 0
    /\ \A f \in InResumption \cup SetAside : frames[f].fiber # 0
    /\ Cardinality({f \in {metastack[i] : i \in DOMAIN metastack}
                            \cup InResumption \cup SetAside :
                      frames[f].fiber = 0}) = 1
    /\ \A f \in {metastack[i] : i \in DOMAIN metastack} \cup InResumption \cup SetAside :
         frames[f].fiber # 0
           => /\ frames[f].fiber # cur
              /\ frames[f].fiber \in DOMAIN contexts
              /\ contexts[frames[f].fiber] # <<>>
              /\ \A g \in {metastack[i] : i \in DOMAIN metastack}
                            \cup InResumption \cup SetAside :
                   (g # f) => frames[g].fiber # frames[f].fiber

\* a clause runs while two frames sit in its resumption and two on the
\* metastack: the front one is the only one of the four without a fiber
FibersWhileClauseRuns ==
  /\ ClientRuns
  /\ Top(Here).r # Null
  /\ Len(metastack) = 2
  /\ Cardinality(InResumption) = 2
  /\ frames[metastack[1]].fiber = 0
  /\ frames[metastack[2]].fiber # 0
  /\ \A f \in InResumption : frames[f].fiber # 0

-----------------------------------------------------------------------------
\* the frame init_metastack pushed
Bottom == Last(metastack)

(* C30: in every state a run without undefined behaviour reaches, the       *)
(* metastack is not empty and its last element is the frame that was there  *)
(* at the start: a plain metaframe with the label 0, which exists, appears  *)
(* on the metastack once, is in no stored stack of a resumption and in no   *)
(* list a plain clause set aside, and has no stored frames of its own; no   *)
(* step removes it or moves it.                                             *)
BottomFrameStays ==
  [][status' # "ub"
     => /\ metastack' # <<>>
        /\ Last(metastack') = Bottom
        /\ \A i \in 1..(Len(metastack') - 1) : metastack'[i] # Bottom
        /\ frames'[Bottom].cls = "metaframe"
        /\ frames'[Bottom].label = 0
        /\ frames'[Bottom].alive
        /\ Bottom \notin InResumption'
        /\ Bottom \notin SetAside'
        /\ \A c \in Cmds : frames'[Bottom].stored[c] = <<>>
    ]_vars

\* a no_resume clause runs after the frames from the front down to its
\* handler's were erased: the bottom frame is all that is left
BottomLeftAfterErase ==
  /\ ClientRuns
  /\ Len(contexts[cur]) > 1
  /\ Caller(Here).k = "no_resume"
  /\ metastack = <<1>>
  /\ frames[1].cls = "metaframe"
  /\ frames[1].label = 0
  /\ frames[1].fiber = 0
  /\ ~OnMetastack(metastack, Caller(Here).h)
  /\ 1 \notin InResumption

-----------------------------------------------------------------------------
\* invoke_command is about to return to the invoker: the resumption was
\* resumed and the invoker's fiber runs again
InvokeReturns(s) == s.status = "run" /\ Top(s).k = "invoke_command"

\* the context that resumed the resumption of the returning invoke_command:
\* its fiber was saved in the frame that was at the front, which now comes
\* right after the frames that were spliced back
Resumer(s) ==
  LET rd == Top(s).rd
      k == Least({i \in DOMAIN Top(s).at : Top(s).at[i] = rd[1]})
  IN  IF Len(s.ms) > k THEN s.fr[s.ms[k + 1]].fiber ELSE 0

\* the resume was called by the clause that was given the resumption, in the
\* context the clause was called in
ResumedByOwnClause(s) ==
  LET rd == Top(s).rd
      c == Resumer(s)
      n == IF c = 0 THEN 0 ELSE Len(s.ctx[c])
  IN  /\ n > 2
      /\ s.ctx[c][n].k = "resume"
      /\ s.ctx[c][n].rd = rd
      /\ s.ctx[c][n - 1].k = "code"
      /\ s.ctx[c][n - 1].self = rd[1]
      /\ s.ctx[c][n - 1].p = ClauseOf(s.fr[rd[1]].cls, rd[2])
      /\ s.ctx[c][n - 2].k = "clause"
      /\ s.ctx[c][n - 2].h = rd[1]

\* the clause tail-resumed and returned, and the trampoline of the
\* handle_with that installed the handler performed the resumption
TrampolinedByOwnHandle(s) ==
  LET c == Resumer(s)
  IN  /\ c # 0
      /\ Last(s.ctx[c]).k = "handle_with"
      /\ Last(s.ctx[c]).h = Top(s).rd[1]

(* C31: when invoke_command returns to the invoker after the clause that    *)
(* was given the resumption resumed it in the context it was called in      *)
(* (by resume, or by tail_resume performed by the trampoline of the handle  *)
(* that installed the handler), or after a plain clause returned, the       *)
(* metastack holds the frames it held right before the invocation, in the   *)
(* same order.                                                              *)
CaptureResumeRoundTrip ==
  [][/\ (/\ InvokeReturns(Here)
         /\ ResumedByOwnClause(Here) \/ TrampolinedByOwnHandle(Here)
         /\ status' = "run")
        => /\ metastack = Top(Here).at
           /\ metastack' = Top(Here).at
     /\ (/\ AtOp(Here, "ret")
         /\ Caller(Here).k = "plain"
         /\ status' = "run")
        => metastack' = Caller(Here).at
    ]_vars

\* invoke_command returns after the clause resumed on the spot: three frames
\* are back where they were, two of them through the resumption
RoundTripByResume ==
  /\ InvokeReturns(Here)
  /\ ResumedByOwnClause(Here)
  /\ Len(metastack) >= 3
  /\ metastack = Top(Here).at
  /\ Top(Here).rd[1] = metastack[2]

\* the same through tail_resume and the trampoline
RoundTripByTrampoline ==
  /\ InvokeReturns(Here)
  /\ TrampolinedByOwnHandle(Here)
  /\ Len(metastack) >= 3
  /\ metastack = Top(Here).at
  /\ Top(Here).rd[1] = metastack[2]

\* a plain clause runs with two frames set aside
RoundTripByPlain ==
  /\ ClientRuns
  /\ Len(contexts[cur]) > 1
  /\ Caller(Here).k = "plain"
  /\ Len(Caller(Here).stored) >= 1
  /\ Caller(Here).at = Caller(Here).stored \o metastack

\* a resumption resumed by other code than its clause brings the invoker
\* back onto a metastack that is not the one it invoked on
ResumedElsewhere ==
  /\ InvokeReturns(Here)
  /\ ~ResumedByOwnClause(Here)
  /\ ~TrampolinedByOwnHandle(Here)
  /\ metastack # Top(Here).at

-----------------------------------------------------------------------------
\* the frames that handle calls created and that still exist (frame 1 is the
\* one init_metastack created)
HandleFrames == {f \in DOMAIN frames : f # 1 /\ frames[f].alive}

\* the places that hold frame f: positions of the metastack and positions of
\* the stored stacks of the resumption buffers
PlacesOf(f) ==
  {<<0, "metastack", i>> : i \in {j \in DOMAIN metastack : metastack[j] = f}}
  \cup UNION {{<<g, c, i>> : i \in {j \in DOMAIN frames[g].stored[c] :
                                       frames[g].stored[c][j] = f}} :
              g \in {h \in DOMAIN frames : frames[h].alive}, c \in Cmds}

\* the positions of the lists running plain clauses set aside that hold f
AsideOf(f) ==
  UNION {UNION {{<<c, i, j>> : j \in {n \in DOMAIN contexts[c][i].stored :
                                        contexts[c][i].stored[n] = f}} :
                i \in {k \in DOMAIN contexts[c] : contexts[c][k].k = "plain"}} :
         c \in DOMAIN contexts}

\* a pointer of the library or of the client, outside the metastack, the
\* stored stacks and the lists set aside, that keeps frame f: the returnFrame
\* of its body fiber, the handler parameter of handle_with, the pointer a
\* running clause keeps to its handler, a pointer the client made
KeptByPointer(f) ==
  \E c \in DOMAIN contexts : \E i \in DOMAIN contexts[c] :
    /\ contexts[c][i].k \in {"bodyFiber", "handle_with", "clause", "code"}
    /\ RecHolds(contexts[c][i], f)

\* capture by a command clause, or resume
CaptureOrResume ==
  Dispatched(Here, "std") \/ AtOp(Here, "resume") \/ AtOp(Here, "resumeRes")

\* the library has not released frame f: it is on the metastack, in a stored
\* stack, in the list of a plain clause or in the returnFrame of a body fiber
NotReleased(f) ==
  \/ PlacesOf(f) \cup AsideOf(f) # {}
  \/ \E c \in DOMAIN contexts : \E i \in DOMAIN contexts[c] :
       contexts[c][i].k = "bodyFiber" /\ RecHolds(contexts[c][i], f)

\* C32 as stated: whenever client code runs, every frame a handle call
\* created and the library has not released is at exactly one position of
\* the metastack and the stored stacks of the resumptions
HeldInOnePlace ==
  ClientRuns =>
    \A f \in HandleFrames : NotReleased(f) => Cardinality(PlacesOf(f)) = 1

(* C32: whenever client code runs, a frame that a handle call created and   *)
(* that still exists is at no more than one position of the metastack, the  *)
(* stored stacks of the resumptions and the lists that running plain        *)
(* clauses set aside; a frame at none of these positions is kept by a       *)
(* pointer outside them (the returnFrame of its finished body, the handler  *)
(* parameter of handle_with, the pointer of a running clause, a pointer of  *)
(* the client). A capture by a command clause and a resume leave the set of *)
(* frames that are on the metastack or in a stored stack as it was.         *)
FramesNeverDuplicated ==
  /\ [](ClientRuns =>
          \A f \in HandleFrames :
            /\ Cardinality(PlacesOf(f) \cup AsideOf(f)) <= 1
            /\ PlacesOf(f) \cup AsideOf(f) = {} => KeptByPointer(f))
  /\ [][(CaptureOrResume /\ status' = "run")
          => (SeqRange(metastack) \cup InResumption)'
               = SeqRange(metastack) \cup InResumption]_vars

\* a clause runs with two frames in its resumption while other frames made
\* by handle calls are on the metastack
FramesCapturedAndInstalled ==
  /\ ClientRuns
  /\ Cardinality(InResumption) >= 2
  /\ \E f \in HandleFrames : OnMetastack(metastack, f)

\* a plain clause runs: the frames above its handler are in its local list,
\* neither on the metastack nor in a resumption
FrameOnlySetAside ==
  /\ ClientRuns
  /\ \E f \in HandleFrames : AsideOf(f) # {} /\ PlacesOf(f) = {}

\* a return clause runs: its handler's frame was popped and is kept by the
\* returnFrame of the body fiber alone
FrameOnlyInReturnFrame ==
  /\ ClientRuns
  /\ \E f \in HandleFrames :
       /\ PlacesOf(f) \cup AsideOf(f) = {}
       /\ ~\E c \in DOMAIN contexts : \E i \in DOMAIN contexts[c] :
             /\ contexts[c][i].k \in {"handle_with", "clause", "code"}
             /\ RecHolds(contexts[c][i], f)

-----------------------------------------------------------------------------
\* the running code is the return clause of a handler and is about to invoke
\* a command with invoke_command, by type or by label
ReturnClauseInvokes(s) ==
  /\ AtOp(s, "inv")
  /\ Instr(s).d = 0
  /\ Len(s.ctx[s.cur]) > 1
  /\ Caller(s).k = "run_return"

(* C33: a command that the return clause of a handler invokes, without a    *)
(* label or with a label, the handler's own included, is not served by that *)
(* handler: the handler's frame is not on the metastack when the return     *)
(* clause invokes, and the invocation either enters the clause of a frame   *)
(* of the metastack, which is another frame, or ends the program.           *)
ReturnClauseNotSelfServed ==
  [][ReturnClauseInvokes(Here)
       => /\ ~OnMetastack(metastack, Caller(Here).h)
          /\ \/ status' \in {"exit", "ub"}
             \/ \E i \in DOMAIN metastack :
                  /\ metastack[i] # Caller(Here).h
                  /\ Entered(Here', metastack[i], Instr(Here).a)]_vars

\* the return clause of frame h waits in an invoke_command at position i + 2
\* of context c
ReturnClauseWaits(c, i, h) ==
  /\ i + 2 \in DOMAIN contexts[c]
  /\ contexts[c][i].k = "run_return"
  /\ contexts[c][i].h = h
  /\ contexts[c][i + 2].k = "invoke_command"

\* the clause of an enclosing handler of the same command starts for the
\* invocation made by the return clause of a handler with the same label
ReturnClauseServedByEnclosing ==
  /\ status = "run"
  /\ \E c \in DOMAIN contexts : \E i \in DOMAIN contexts[c] : \E h \in DOMAIN frames :
       /\ ReturnClauseWaits(c, i, h)
       /\ contexts[c][i + 2].rd[1] # h
       /\ Entered(Here, contexts[c][i + 2].rd[1], "Read")
       /\ Declares(frames[h].cls, "Read")
       /\ frames[h].label = frames[contexts[c][i + 2].rd[1]].label

\* the same when the return clause names the label of its handler
ReturnClauseLabelledServed ==
  /\ ReturnClauseServedByEnclosing
  /\ input.vec[1] = 1

\* the return clause of the only handler of the command invoked it and the
\* program ended with the error
ReturnClauseInvokeFailed ==
  /\ status = "exit"
  /\ Top(Here).k = "code"
  /\ Top(Here).p = P("Asker_return", 0)
  /\ Len(metastack) = 1

-----------------------------------------------------------------------------
\* the command whose clause is the running code
ClauseCmd(s) ==
  CHOOSE cmd \in Cmds : Top(s).p = ClauseOf(s.fr[Top(s).self].cls, cmd)

\* the running code is a command clause (default, no_manage or plain) that
\* has not resumed (its resumption, wherever it is, holds the frames), about
\* to invoke a command with invoke_command
ClauseInvokes(s) ==
  /\ AtOp(s, "inv")
  /\ Instr(s).d = 0
  /\ Len(s.ctx[s.cur]) > 1
  /\ Caller(s).k \in {"clause", "plain"}
  /\ Top(s).self = Caller(s).h
  /\ Caller(s).k = "clause" => s.fr[Caller(s).h].stored[ClauseCmd(s)] # <<>>

\* the frames that enclosed the handler of the running clause when its
\* command was invoked
Enclosing(s) ==
  LET at == Caller(s).at
      k == Least({i \in DOMAIN at : at[i] = Caller(s).h})
  IN  SubSeq(at, k + 1, Len(at))

\* frame i of the metastack is what an invocation of cmd selects, by label
\* lab or, if lab is Null, by type
Selects(i, cmd, lab) ==
  IF lab = Null THEN Declares(frames[metastack[i]].cls, cmd)
  ELSE frames[metastack[i]].label = lab[1]

(* C34: when a command clause of a handler (default, no_manage or plain)    *)
(* that has not resumed invokes a command, the metastack is the sequence of *)
(* the frames that enclosed the handler at the invocation it serves, so the *)
(* handler itself and the frames installed inside its body are not          *)
(* searched; the command is served by the nearest of the enclosing frames   *)
(* that the invocation selects, or the program ends.                        *)
ClauseInvokesOutward ==
  [][ClauseInvokes(Here)
       => /\ metastack = Enclosing(Here)
          /\ \/ status' \in {"exit", "ub"}
             \/ \E i \in DOMAIN metastack :
                  /\ Selects(i, Instr(Here).a, Instr(Here).b)
                  /\ \A j \in 1..(i - 1) : ~Selects(j, Instr(Here).a, Instr(Here).b)
                  /\ Entered(Here', metastack[i], Instr(Here).a)]_vars

\* testSandwich: the Do of the plain Print clause is served by the outer
\* Bracket while the inner Bracket, which declares Do too, is in the list
\* the plain clause set aside
SandwichServedByOuter ==
  /\ input.scen = "sandwich"
  /\ \E f \in DOMAIN frames : \E g \in DOMAIN frames :
       /\ Entered(Here, f, "Do")
       /\ frames[g].alive
       /\ frames[g].cls = "Bracket"
       /\ frames[f].state = "[out]"
       /\ frames[g].state = "[in]"
       /\ g \in SetAside
       /\ ~OnMetastack(metastack, g)

\* a default or no_manage clause whose resumption was not resumed invoked a
\* command and the clause of an enclosing handler started, while the frames
\* of the resumption are off the metastack
ClauseServedByEnclosing ==
  /\ status = "run"
  /\ \E c \in DOMAIN contexts : \E i \in DOMAIN contexts[c] : \E f \in DOMAIN frames :
       /\ i + 2 \in DOMAIN contexts[c]
       /\ contexts[c][i].k = "clause"
       /\ contexts[c][i + 2].k = "invoke_command"
       /\ contexts[c][i + 2].rd[1] = f
       /\ Entered(Here, f, contexts[c][i + 2].rd[2])
       /\ f # contexts[c][i].h
       /\ ~OnMetastack(metastack, contexts[c][i].h)

-----------------------------------------------------------------------------
\* handle_with or resume is running on the current fiber, at its loop
AtLoop(s) == s.status = "run" /\ Top(s).k \in {"handle_with", "resume"}

\* the frames of the resumption in the trampoline slot
SlotFrames == frames[tail_resumption[1]].stored[tail_resumption[2]]

(* C35: handle, handle_with and resume return to their caller only with the *)
(* trampoline slot empty: a step of one of them at its loop that returns    *)
(* (its activation leaves the running context) starts and ends with the     *)
(* slot empty; with a resumption in the slot the step performs it (the slot *)
(* is emptied, the stored frames go back onto the metastack and their       *)
(* fiber runs) and the function stays in its loop.                          *)
ReturnsWithSlotEmpty ==
  [][(AtLoop(Here) /\ status' = "run")
       => /\ Len(contexts'[cur]) < Len(contexts[cur])
               => tail_resumption = Null /\ tail_resumption' = Null
          /\ tail_resumption # Null
               => /\ tail_resumption' = Null
                  /\ SlotFrames # <<>>
                  /\ metastack' = SlotFrames \o metastack
                  /\ cur' = frames[Head(SlotFrames)].fiber
                  /\ cur' # cur
                  /\ contexts'[cur] = contexts[cur]]_vars

\* handle_with is at its loop with a resumption in the slot
TurnPendingInHandle ==
  /\ AtLoop(Here)
  /\ Top(Here).k = "handle_with"
  /\ tail_resumption # Null

\* resume is at its loop with a resumption in the slot
TurnPendingInResume ==
  /\ AtLoop(Here)
  /\ Top(Here).k = "resume"
  /\ tail_resumption # Null

\* handle_with is about to return after its loop performed a tail-resumption
\* of its handler whose fiber has come back with the answer
ReturnsAfterTurn ==
  /\ AtLoop(Here)
  /\ Top(Here).k = "handle_with"
  /\ tail_resumption = Null
  /\ input.scen = "state_tail"
  /\ input.vec # <<>>
  /\ ~frames[Top(Here).h].alive \/ ~OnMetastack(metastack, Top(Here).h)

-----------------------------------------------------------------------------
\* the running code installs a handler without naming a label
InstallsUnlabelled(s) ==
  \/ AtOp(s, "handle") /\ Instr(s).b = Null
  \/ AtOp(s, "handleWith")

\* the labels the frames carry
LabelsInUse == {frames[f].label : f \in DOMAIN frames}

(* C36: the label a handler gets when it is installed without an explicit   *)
(* label is strictly negative and differs from the label of every frame of  *)
(* the run so far: it is one less than the counter, which is negative and   *)
(* below which no frame's label lies; so it is neither 0 nor positive.      *)
FreshLabelsNegativeDistinct ==
  /\ [](/\ freshCounter <= -1
        /\ \A l \in LabelsInUse : l >= freshCounter)
  /\ [][(InstallsUnlabelled(Here) /\ status' = "run")
          => /\ frames'[Head(metastack')].label < 0
             /\ frames'[Head(metastack')].label \notin LabelsInUse
             /\ frames'[Head(metastack')].label = freshCounter'
             /\ freshCounter' = freshCounter - 1]_vars

\* three handlers installed without a label are on the metastack together,
\* with three labels
ThreeFreshLabels ==
  /\ ClientRuns
  /\ Len(metastack) >= 4
  /\ \A i \in 1..3 : frames[metastack[i]].label < 0
  /\ Cardinality({frames[metastack[i]].label : i \in 1..3}) = 3

\* a handler with a fresh label is installed inside one with a positive label
FreshInsideLabelled ==
  /\ ClientRuns
  /\ \E i \in DOMAIN metastack : \E j \in DOMAIN metastack :
       /\ i < j
       /\ frames[metastack[i]].label < 0
       /\ frames[metastack[j]].label > 0

-----------------------------------------------------------------------------
\* the tracked assignments whose AssignCmd clause has been entered and has
\* not returned, by the number of the Assign object
PendingAssigns ==
  UNION {{contexts[c][i].cmdv.n :
            i \in {j \in DOMAIN contexts[c] :
                     /\ contexts[c][j].k = "code"
                     /\ contexts[c][j].p = P("RollbackState_AssignCmd", 0)}} :
         c \in DOMAIN contexts}

\* the code after the resume call of an AssignCmd clause is running
AfterResume(s) ==
  /\ s.status = "run"
  /\ Top(s).k = "code"
  /\ Top(s).p = P("RollbackState_AssignCmd", 0)
  /\ Top(s).pc >= 2

(* C37: the part of an AssignCmd clause that follows its resume call runs   *)
(* only when the handled computation has given its answer (the resume call  *)
(* returned a bool, the handler's frame is neither on the metastack nor in  *)
(* a stored stack) and the clauses of all later tracked assignments have    *)
(* returned while those of all earlier ones still wait: the clauses finish  *)
(* in the reverse order of their invocations. So an undo finds in the       *)
(* variable the value its own assignment wrote, and after a rollback the    *)
(* variables have their initial values when the handle call has returned.   *)
PostResumeInReverse ==
  /\ AfterResume(Here)
       => /\ ~OnMetastack(metastack, Top(Here).self)
          /\ Top(Here).self \notin InResumption
          /\ PendingAssigns = 1..Top(Here).cmdv.n
          /\ Top(Here).acc \in BOOLEAN
          /\ Top(Here).acc = (input.val = 0)
          /\ (Instr(Here).op = "undo")
               => memory[Top(Here).cmdv.var] = TrackedVal(Top(Here).cmdv.n)
  /\ (/\ input.scen = "rollback"
      /\ status = "run"
      /\ Top(Here).k = "code"
      /\ Top(Here).p = P("main", 0)
      /\ Top(Here).pc > 1)
       => IF input.val = 1 THEN memory = [x |-> 1, c |-> "a"]
          ELSE /\ input.vec[1] >= 1 => memory.x # 1
               /\ input.vec[1] >= 2 => memory.c # "a"

\* rollback-state.cpp: the clause of the second of four tracked assignments
\* is about to undo it, the fourth and the third are undone, the first waits
SecondUndoneThird ==
  /\ AfterResume(Here)
  /\ Instr(Here).op = "undo"
  /\ input.vec = <<4>>
  /\ Top(Here).cmdv.n = 2
  /\ memory = [x |-> 2, c |-> "b"]
  /\ PendingAssigns = {1, 2}

\* what main of rollback-state.cpp has printed when it ends
RollbackOutput ==
  /\ input = Scenario("rollback", <<4>>, 1)
  /\ AtOp(Here, "end")
  /\ Top(Here).p = P("main", 0)
  /\ trace = <<Line("a", 1), Line("c", 3), Line("rolling back!", 0), Line("a", 1)>>

-----------------------------------------------------------------------------
\* the dispatch captures a resumption in the buffer of a handler object that
\* still holds the frames of a resumption captured by an earlier dispatch of
\* the command
CapturesBesideLive(s) ==
  /\ Dispatched(s, "std") \/ Dispatched(s, "no_manage")
  /\ s.fr[s.ms[Target(s, Instr(s))]].stored[Instr(s).a] # <<>>

\* the frames the invoke_command that is about to return gave to its
\* resumption: those in front of the handler's frame and the handler's
CapturedBy(rec) ==
  SubSeq(rec.at, 1, Least({i \in DOMAIN rec.at : rec.at[i] = rec.rd[1]}))

(* C38: when a resumption is captured for a command of a handler object     *)
(* that holds a live resumption of an earlier dispatch of that command      *)
(* (the object was installed again with handle_with), the earlier           *)
(* resumption is left as it was: the frames it holds are the same and the   *)
(* body suspended in it stays suspended where it was; and a resume of an    *)
(* escaped resumption puts back the frames that its own dispatch captured   *)
(* and no others, so that each resumption continues its own body.           *)
ResumptionsIndependent ==
  [][/\ (CapturesBesideLive(Here) /\ status' = "run")
        => LET i == Target(Here, Instr(Here))
               f == metastack[i]
               cmd == Instr(Here).a
               st == frames[f].stored[cmd]
               body == frames[Head(st)].fiber
           IN  /\ body # 0
               /\ contexts'[body] = contexts[body]
               /\ \E g \in DOMAIN frames' :
                    frames'[g].alive /\ frames'[g].fiber = body
               /\ SubSeq(frames'[f].stored[cmd], i + 1, i + Len(st)) = st
     /\ (/\ AtOp(Here, "resumeRes")
         /\ status' = "run"
         /\ Top(Here').k = "invoke_command")
        => metastack' = CapturedBy(Top(Here')) \o metastack
    ]_vars

\* the second capture destroyed the body suspended in the first resumption:
\* the second body is suspended at its command, the first one is gone
EarlierBodyDestroyed ==
  /\ input = Scenario("reinstall", <<2>>, 0)
  /\ status = "run"
  /\ ActivationsOf(P("soliloquy", 0)) # {}
  /\ ActivationsOf(P("hamlet", 0)) = {}
  /\ \E f \in DOMAIN frames : Len(frames[f].stored["CmdVoid"]) = 2

-----------------------------------------------------------------------------
\* the no_resume clauses that are executing, as <<context, position>> of
\* the record of their invoke_command
NoResumeCalls ==
  UNION {{<<c, i>> : i \in {j \in DOMAIN contexts[c] :
                              contexts[c][j].k = "no_resume"}} :
         c \in DOMAIN contexts}

\* the handle_with that installed f has returned
InstallationReturned(f) ==
  \A c \in DOMAIN contexts : \A i \in DOMAIN contexts[c] :
    ~(contexts[c][i].k = "handle_with" /\ contexts[c][i].h = f)

NoResumeOnDestroyed ==
  /\ input = Scenario("escapeThenCancel", <<1>>, 0)
  /\ ClientRuns
  /\ Top(Here).p = P("EscapeCatch_Error", 0)
  /\ InstallationReturned(Top(Here).self)
  /\ ~frames[Top(Here).self].alive
  /\ ~OnMetastack(metastack, Top(Here).self)

-----------------------------------------------------------------------------
\* the body fibers whose body has not returned: the fiber's lambda is at
\* the call of the body function
BodiesInProgress ==
  {c \in DOMAIN contexts : /\ Len(contexts[c]) >= 2
                           /\ contexts[c][1].k = "bodyFiber"
                           /\ contexts[c][2].k = "code"}

(* C40: whenever the code of a body executes, the function object that     *)
(* handle_with executes as the body is alive, also when the body runs       *)
(* again after a clause let the resumption escape and the handle call       *)
(* returned; so what the lambda of the body captured is alive when the      *)
(* body reads it.                                                           *)
BodyFunctionOutlivesBody ==
  (ClientRuns /\ cur \in BodiesInProgress /\ Len(contexts[cur]) = 2)
    => BodyFunctionAlive(Here, cur)

\* the inner lambda of resumption::resumption(std::function) is about to
\* call func, its copy of the function, after the two handle calls of the
\* constructor returned
CapturedFunctionGone ==
  /\ input.scen = "function"
  /\ DeadClosure(Here)
  /\ cur \in BodiesInProgress
  /\ \A f \in DOMAIN frames :
       frames[f].cls \in {"HAbort", "HArg", "HArg0"} => InstallationReturned(f)

=============================================================================
